---- MODULE Spec2Model ----
(***************************************************************************)
(* Invoice lifecycle of markos-002/invoice-processor: the storage tables   *)
(* (invoices, invoice_lines, buying_price_records, audit_log), the         *)
(* extraction step (PDFParserService.parse_invoice), the matching engine   *)
(* (ValidationService.validate_invoice), the mismatch resolver             *)
(* (MismatchResolutionService) and the orchestrator loop of main.py.       *)
(*                                                                         *)
(* Conventions.  A nullable text column is a string, NULL standing for     *)
(* Python's None.  A nullable number is a sequence of length at most one:  *)
(* <<>> is None and <<n>> the number n.  Unit prices are counted in units  *)
(* of 0.00001, so the code's epsilon 0.0001 is 10 units.  Storage reads    *)
(* are taken to succeed; a storage write may raise where the text below    *)
(* says so.  Audit inserts never raise (their handlers swallow).           *)
(***************************************************************************)
EXTENDS Integers, Sequences, FiniteSets, TLC

VARIABLES
    invoices,    \* table invoices: invoice id -> row
    pdf,         \* storage bucket: invoice id -> the document its PDF holds
    lines,       \* table invoice_lines, in storage order
    priceBook,   \* table buying_price_records, in storage order
    audit,       \* table audit_log, in insertion order
    nextId,      \* source of fresh uuid4 values
    lastOp,      \* history: the last service call and how it ended
    prevSnap,    \* history: statuses the previous validate of lastOp.inv left
    valSnap,     \* history: invoice id -> statuses its last validate left
    mail,        \* the mailbox and EmailPollingService.processed_message_ids
    orch,        \* the orchestrator task of main.py
    poller       \* the background polling task of main.py and the setting
                 \* that decides whether it is started

dbVars == <<invoices, pdf, lines, priceBook, audit, nextId>>
histVars == <<lastOp, prevSnap, valSnap>>
vars == <<invoices, pdf, lines, priceBook, audit, nextId, lastOp, prevSnap, valSnap,
          mail, orch, poller>>

----------------------------------------------------------------------------
(* Bounds of the model *)

MaxAudit == 5      \* no call starts once audit_log holds this many rows
MaxId == 5         \* no parse starts once this many ids have been drawn
MaxBook == 5       \* no validate starts once the price book holds this many rows
MaxFault == 1      \* a storage write may raise at positions 0..MaxFault
MaxFetches == 4    \* the orchestrator fetches no batch after this many fetches

(* Values *)

NULL == "NULL"
None == <<>>
Some(n) == <<n>>
NoFault == 0 - 1
NoSnap == [none |-> TRUE]

\* Spec follows the calls made on one invoice; what other invoices did
\* before shows in the price book it starts from.  0 is an id no row has.
InvIds == {1}
AnyInvId == {0} \cup InvIds

\* Python truthiness of a text value and of a number (None, "" and 0 are falsy)
TruthyStr(s) == s # NULL /\ s # ""
TruthyNum(x) == x # None /\ x[1] # 0

\* datetime.fromisoformat(s).date() of validation_service.py: the day number
\* of an ISO date, None where the parse raises
FromIso(s) ==
    CASE s = "2024-01-01" -> Some(1)
      [] s = "2024-01-02" -> Some(2)
      [] s = "2024-01-03" -> Some(3)
      [] s = "2024-01-04" -> Some(4)
      [] OTHER -> None

\* date.isoformat()
IsoFormat(d) ==
    CASE d = 1 -> "2024-01-01"
      [] d = 2 -> "2024-01-02"
      [] d = 3 -> "2024-01-03"
      [] OTHER -> "2024-01-04"

\* PDFParserService._parse_date: ISO and DD.MM.YYYY are recognised
ParseDate(s) ==
    IF ~TruthyStr(s) THEN NULL
    ELSE CASE s = "02.01.2024" -> "2024-01-02"
           [] s = "01.01.2024" -> "2024-01-01"
           [] FromIso(s) # None -> IsoFormat(FromIso(s)[1])
           [] OTHER -> NULL

\* str.lower()
Lower(s) ==
    CASE s = "Widget" -> "widget"
      [] s = "WIDGET" -> "widget"
      [] OTHER -> s

Abs(n) == IF n < 0 THEN 0 - n ELSE n

\* the absolute epsilon of the price comparison, in units of 0.00001
Epsilon == 10

----------------------------------------------------------------------------
(* Storage helpers *)

\* the tables as one value; n counts the storage writes made by the running
\* call and raised tells that one of them raised
DB == [invoices |-> invoices, lines |-> lines, priceBook |-> priceBook,
       audit |-> audit, nextId |-> nextId, n |-> 0, raised |-> FALSE]

\* one storage write of a call whose write number `fault` raises: after a
\* raise nothing more is written
Write(db, fault, new) ==
    IF db.raised THEN db
    ELSE IF db.n = fault THEN [db EXCEPT !.raised = TRUE]
    ELSE [new EXCEPT !.n = db.n + 1]

AuditEntry(etype, eid, action) ==
    [entity_type |-> etype, entity_id |-> eid, action |-> action]

\* a log that keeps the newest entry only
LogAuditOverwrite(db, etype, eid, action) ==
    IF db.raised THEN db
    ELSE [db EXCEPT !.audit = <<AuditEntry(etype, eid, action)>>]

\* audit_log_table.insert(entry).execute(), skipped once the call has raised
LogAudit(db, etype, eid, action) ==
    IF db.raised THEN db
    ELSE [db EXCEPT !.audit = Append(@, AuditEntry(etype, eid, action))]

\* invoice_lines_table.update({"status": s}).eq("id", id)
UpdateInvoiceLineStatus(db, fault, id, s) ==
    Write(db, fault, [db EXCEPT !.lines = [k \in DOMAIN db.lines |->
        IF db.lines[k].id = id THEN [db.lines[k] EXCEPT !.status = s]
        ELSE db.lines[k]]])

\* ValidationService._update_invoice_status: validated_at is written only
\* when a timestamp is passed
UpdateInvoiceStatus(db, fault, i, s, stamp) ==
    Write(db, fault, [db EXCEPT !.invoices[i] =
        IF stamp THEN [@ EXCEPT !.status = s, !.validated_at = TRUE]
        ELSE [@ EXCEPT !.status = s]])

\* select("*").eq("invoice_id", i): the rows of one invoice, in storage order
LinesOf(ls, i) == SelectSeq(ls, LAMBDA l : l.invoice_id = i)

RECURSIVE InsertByLineNo(_, _)
InsertByLineNo(s, l) ==
    IF s = <<>> THEN <<l>>
    ELSE IF l.line_no < Head(s).line_no THEN <<l>> \o s
    ELSE <<Head(s)>> \o InsertByLineNo(Tail(s), l)

RECURSIVE OrderByLineNo(_)
\* .order("line_no")
OrderByLineNo(s) ==
    IF s = <<>> THEN <<>>
    ELSE InsertByLineNo(OrderByLineNo(Tail(s)), Head(s))

----------------------------------------------------------------------------
(* ValidationService: lookups *)

\* the validity check of both lookups (both ends inclusive in the code)
DateValid(r, d) ==
    /\ (FromIso(r.valid_from) = None \/ FromIso(r.valid_from)[1] <= d)
    /\ (FromIso(r.valid_to) = None \/ d <= FromIso(r.valid_to)[1])

FirstOrNone(s) == IF s = <<>> THEN None ELSE Some(Head(s))

\* a lookup that forgets the status filter
LookupAnyStatus(r) == r.status \in {"active", "need_review"}

\* the status filter of the lookups
LookupStatus(r) == r.status = "active"

FindBuyingPriceBySku(pb, supplier_name, sku, invoice_date) ==
    IF ~TruthyStr(supplier_name) \/ ~TruthyStr(sku) THEN None
    ELSE LET result == SelectSeq(pb, LAMBDA r :
                 r.supplier_name = supplier_name /\ r.sku = sku /\ LookupStatus(r))
             candidates == IF invoice_date # None
                 THEN SelectSeq(result, LAMBDA r : DateValid(r, invoice_date[1]))
                 ELSE result
         IN FirstOrNone(candidates)

FindBuyingPriceByProductName(pb, supplier_name, product_name, invoice_date) ==
    IF ~TruthyStr(supplier_name) \/ ~TruthyStr(product_name) THEN None
    ELSE LET result == SelectSeq(pb, LAMBDA r :
                 r.supplier_name = supplier_name /\ LookupStatus(r))
             named == SelectSeq(result, LAMBDA r :
                 TruthyStr(r.product_name) /\ Lower(r.product_name) = Lower(product_name))
             candidates == IF invoice_date # None
                 THEN SelectSeq(named, LAMBDA r : DateValid(r, invoice_date[1]))
                 ELSE named
         IN FirstOrNone(candidates)

----------------------------------------------------------------------------
(* ValidationService: learning a price *)

\* an insert that never looks for an existing need_review row
NoExistingNeedReview(pb, supplier_name, sku) == <<>>

\* the need_review rows that stop an insert: looked up only for a line with a sku
ExistingNeedReview(pb, supplier_name, sku) ==
    IF TruthyStr(sku)
    THEN SelectSeq(pb, LAMBDA r : r.supplier_name = supplier_name /\ r.sku = sku
                                  /\ r.status = "need_review")
    ELSE <<>>

\* a learned record inserted as an active one
LearnedStatusActive == "active"

\* the status a learned record is inserted with
LearnedStatus == "need_review"

\* a learned record that does not tell where it came from
LearnedSourceManual == "manual"

\* the source a learned record is inserted with
LearnedSource == "learned_from_invoice"

\* ValidationService._create_buying_price_record: [db, id]
CreateBuyingPriceRecord(db, fault, supplier_name, sku, product_name, currency, unit_price, valid_from) ==
    LET existing == ExistingNeedReview(db.priceBook, supplier_name, sku)
        record == [id |-> db.nextId, supplier_name |-> supplier_name, sku |-> sku,
                   product_name |-> product_name, currency |-> currency,
                   unit_price |-> unit_price, status |-> LearnedStatus,
                   valid_from |-> IF valid_from # None THEN IsoFormat(valid_from[1]) ELSE NULL,
                   valid_to |-> NULL, source |-> LearnedSource]
    IN IF existing # <<>> THEN [db |-> db, id |-> Head(existing).id]
       ELSE [db |-> Write(db, fault, [db EXCEPT !.priceBook = Append(@, record),
                                                !.nextId = @ + 1]),
             id |-> db.nextId]

----------------------------------------------------------------------------
(* ValidationService: one line *)

\* float(x) - float(y) for two prices 0.0001 apart is not always the double
\* 0.0001: for these lower prices lo (in units of 0.00001, as all prices
\* here) IEEE-754 double arithmetic gives
\* abs(float((lo + 10) / 100000) - float(lo / 100000)) < 0.0001, for the other
\* prices of the specifications it does not.  Differences of 0.00009 and
\* less, and of 0.00011 and more, are far from the rounding error.
RoundsBelowEpsilon == {200, 12345, 29990, 30000, 99990, 100000}

\* the price comparison of _validate_invoice_line:
\* abs(float(unit_price) - float(record["unit_price"])) < 0.0001
PricesMatch(actual, expected) ==
    LET diff_unit_price == Abs(actual - expected)
        lo == IF actual < expected THEN actual ELSE expected
    IN \/ diff_unit_price < Epsilon
       \/ diff_unit_price = Epsilon /\ lo \in RoundsBelowEpsilon

\* the data a line needs for a price to be learned from it
CanLearn(supplier_name, sku, product_name, line_currency, unit_price) ==
    /\ TruthyStr(supplier_name)
    /\ (TruthyStr(sku) \/ TruthyStr(product_name))
    /\ TruthyStr(line_currency)
    /\ TruthyNum(unit_price)

\* a lookup that turns to the product name when the sku finds nothing
FindRecordWithFallback(pb, supplier_name, sku, product_name, invoice_date) ==
    IF TruthyStr(sku)
       /\ FindBuyingPriceBySku(pb, supplier_name, sku, invoice_date) # None
    THEN FindBuyingPriceBySku(pb, supplier_name, sku, invoice_date)
    ELSE FindBuyingPriceByProductName(pb, supplier_name, product_name, invoice_date)

\* the choice of the match key: the sku when the line has one, else the
\* product name
FindRecord(pb, supplier_name, sku, product_name, invoice_date) ==
    IF TruthyStr(sku)
    THEN FindBuyingPriceBySku(pb, supplier_name, sku, invoice_date)
    ELSE FindBuyingPriceByProductName(pb, supplier_name, product_name, invoice_date)

\* ValidationService._validate_invoice_line: [db, status]
ValidateInvoiceLine(db, fault, line, invoice_id, supplier_name, invoice_date, invoice_currency) ==
    LET sku == line.sku
        product_name == line.product_name
        unit_price == line.unit_price
        line_currency == IF TruthyStr(line.currency) THEN line.currency
                         ELSE invoice_currency
        record == FindRecord(db.priceBook, supplier_name, sku, product_name,
                             invoice_date)
        unknown == UpdateInvoiceLineStatus(db, fault, line.id, "unknown")
    IN IF ~TruthyStr(sku) /\ ~TruthyStr(product_name)
       THEN [db |-> LogAudit(unknown, "invoice", invoice_id, "MARKED_NEED_REVIEW"),
             status |-> "unknown"]
       ELSE IF record = None
       THEN IF CanLearn(supplier_name, sku, product_name, line_currency, unit_price)
            THEN LET made == CreateBuyingPriceRecord(db, fault, supplier_name, sku,
                                 product_name, line_currency, unit_price[1], invoice_date)
                     marked == UpdateInvoiceLineStatus(made.db, fault, line.id,
                                                       "created_price_record")
                 IN [db |-> LogAudit(marked, "buying_price_record", made.id,
                                     "PRICE_RECORD_CREATED"),
                     status |-> "created_price_record"]
            ELSE [db |-> LogAudit(unknown, "invoice", invoice_id, "MARKED_NEED_REVIEW"),
                  status |-> "unknown"]
       ELSE IF ~TruthyNum(unit_price)
       THEN [db |-> unknown, status |-> "unknown"]
       ELSE IF PricesMatch(unit_price[1], record[1].unit_price)
       THEN [db |-> UpdateInvoiceLineStatus(db, fault, line.id, "match"),
             status |-> "match"]
       ELSE [db |-> LogAudit(UpdateInvoiceLineStatus(db, fault, line.id, "mismatch"),
                             "invoice_line", line.id, "PRICE_MISMATCH"),
             status |-> "mismatch"]

----------------------------------------------------------------------------
(* ValidationService: the invoice *)

RECURSIVE ValidateLines(_, _, _, _, _)
\* the loop over the lines: [db, statuses], statuses in line_no order
ValidateLines(st, fault, ls, invoice_id, inv) ==
    IF ls = <<>> \/ st.db.raised THEN st
    ELSE LET r == ValidateInvoiceLine(st.db, fault, Head(ls), invoice_id,
                      inv.supplier_name, FromIso(inv.invoice_date), inv.currency)
         IN ValidateLines([db |-> r.db, statuses |-> Append(st.statuses, r.status)],
                          fault, Tail(ls), invoice_id, inv)

\* an overall status that lets unknown lines pass
OverallStatusLax(statuses) ==
    IF \E k \in DOMAIN statuses : statuses[k] \in {"mismatch", "created_price_record"}
    THEN "needs_review" ELSE "validated"

\* the overall status from the statuses the lines were resolved to
OverallStatus(statuses) ==
    IF \E k \in DOMAIN statuses :
           statuses[k] \in {"mismatch", "created_price_record", "unknown"}
    THEN "needs_review" ELSE "validated"

\* ValidationService.validate_invoice: [db, result, status], result one of
\* "ok", "raised" (a storage write raised) and "ValueError" (no such invoice)
\* a status other than parsed is logged as a warning and validate_invoice
\* goes on
RejectsUnlessParsed(status) == status # "parsed"
RejectsStatus(status) == FALSE

ValidateInvoice(db, fault, invoice_id) ==
    IF invoice_id \notin DOMAIN db.invoices
    THEN [db |-> db, result |-> "ValueError", status |-> NULL]
    ELSE IF RejectsStatus(db.invoices[invoice_id].status)
    THEN [db |-> db, result |-> "raised", status |-> NULL]
    ELSE LET inv == db.invoices[invoice_id]
             invoice_lines == OrderByLineNo(LinesOf(db.lines, invoice_id))
         IN IF invoice_lines = <<>>
            THEN LET upd == UpdateInvoiceStatus(db, fault, invoice_id, "needs_review", FALSE)
                 IN [db |-> LogAudit(upd, "invoice", invoice_id, "MARKED_NEED_REVIEW"),
                     result |-> IF upd.raised THEN "raised" ELSE "ok",
                     status |-> "needs_review"]
            ELSE LET done == ValidateLines([db |-> db, statuses |-> <<>>], fault,
                                           invoice_lines, invoice_id, inv)
                     overall_status == OverallStatus(done.statuses)
                     upd == UpdateInvoiceStatus(done.db, fault, invoice_id, overall_status,
                                                overall_status = "validated")
                 IN [db |-> LogAudit(upd, "invoice", invoice_id, "INVOICE_VALIDATED"),
                     result |-> IF upd.raised THEN "raised" ELSE "ok",
                     status |-> overall_status]

----------------------------------------------------------------------------
(* Documents: what the extraction collaborator returns for a stored PDF *)

RawLine(no, sku, name, price, qty) ==
    [line_no |-> no, sku |-> sku, product_name |-> name, unit_price |-> price,
     quantity |-> qty, line_total |-> None, net_amount |-> None]

\* an extracted line that states its totals
WithTotals(l, line_total, net_amount) ==
    [l EXCEPT !.line_total = line_total, !.net_amount = net_amount]

RawDoc(supplier, date, currency, ls) ==
    [supplier_name |-> supplier, invoice_date |-> date, currency |-> currency,
     lines |-> ls]

DocIds == {"empty", "a_match", "a_pair", "b_twice", "b_noprice", "names", "nokey",
           "a_zero", "noheader", "dotted", "early"}

\* call_openai_for_extraction, as a function of the stored PDF
Extracted(d) ==
    CASE d = "empty" -> RawDoc("S1", "2024-01-02", "EUR", <<>>)
      [] d = "a_match" -> RawDoc("S1", "2024-01-02", "EUR",
            <<RawLine(1, "A", "Widget", Some(100), Some(1))>>)
      [] d = "a_pair" -> RawDoc("S1", "2024-01-02", "EUR",
            <<RawLine(2, "A", "Widget", Some(110), Some(1)),
              RawLine(1, "A", "Widget", Some(100), Some(2))>>)
      [] d = "b_twice" -> RawDoc("S1", "2024-01-02", "EUR",
            <<RawLine(1, "B", NULL, Some(100), Some(1)),
              RawLine(2, "B", NULL, Some(100), Some(3))>>)
      [] d = "b_noprice" -> RawDoc("S1", "2024-01-02", "EUR",
            <<RawLine(1, "B", NULL, None, Some(1)),
              RawLine(2, "B", NULL, None, Some(1))>>)
      [] d = "names" -> RawDoc("S1", "2024-01-02", "EUR",
            <<RawLine(1, NULL, "Widget", Some(100), Some(1)),
              RawLine(2, NULL, "WIDGET", Some(100), Some(1))>>)
      [] d = "nokey" -> RawDoc("S1", "2024-01-02", "EUR",
            <<RawLine(1, NULL, NULL, Some(100), Some(1))>>)
      [] d = "a_zero" -> RawDoc("S1", "2024-01-02", "EUR",
            <<RawLine(1, "A", NULL, Some(0), Some(1))>>)
      [] d = "noheader" -> RawDoc(NULL, "garbage", NULL,
            <<RawLine(1, "A", NULL, Some(100), Some(1))>>)
      [] d = "dotted" -> RawDoc("S1", "02.01.2024", "EUR",
            <<WithTotals(RawLine(1, "A", NULL, Some(0 - 100), Some(0 - 5)),
                         Some(0 - 500), Some(0 - 400)),
              WithTotals(RawLine(2, "B", NULL, Some(100), Some(1)),
                         Some(100), Some(0))>>)
      [] OTHER -> RawDoc("S1", "2024-01-01", "EUR",
            <<RawLine(1, "A", NULL, Some(109), Some(1))>>)

----------------------------------------------------------------------------
(* PDFParserService *)

\* a cleaning that leaves negative values as they are
KeepNum(x) == x

\* if value is not None and value < 0: value = abs(value)
AbsNum(x) == IF x # None /\ x[1] < 0 THEN Some(Abs(x[1])) ELSE x

\* PDFParserService._clean_invoice_lines, for the fields kept here
CleanInvoiceLines(ls) ==
    [k \in DOMAIN ls |-> [ls[k] EXCEPT !.quantity = AbsNum(@),
                                       !.unit_price = AbsNum(@),
                                       !.line_total = AbsNum(@),
                                       !.net_amount = AbsNum(@)]]

\* PDFParserService._update_invoice_header_fields: None values are dropped
\* from the update, so the columns keep what they held
UpdateInvoiceHeaderFields(db, i, doc) ==
    LET invoice_date == ParseDate(doc.invoice_date)
    IN [db EXCEPT !.invoices[i] =
           [@ EXCEPT !.supplier_name = IF doc.supplier_name # NULL
                                        THEN doc.supplier_name ELSE @,
                     !.invoice_date = IF invoice_date # NULL THEN invoice_date ELSE @,
                     !.currency = IF doc.currency # NULL THEN doc.currency ELSE @]]

\* the row _replace_invoice_lines builds for a cleaned line
LineRecord(id, i, l) ==
    [id |-> id, invoice_id |-> i, line_no |-> l.line_no, sku |-> l.sku,
     product_name |-> l.product_name, status |-> NULL, quantity |-> l.quantity,
     unit_price |-> l.unit_price, net_amount |-> l.net_amount,
     line_total |-> l.line_total, currency |-> NULL]

RECURSIVE InsertLinesUntilFailure(_, _, _, _, _)
\* an insert loop that the first failing insert ends
InsertLinesUntilFailure(st, i, ls, k, failing) ==
    IF k > Len(ls) \/ k \in failing THEN st
    ELSE InsertLinesUntilFailure(
             [db |-> [st.db EXCEPT
                         !.lines = Append(@, LineRecord(st.db.nextId, i, ls[k])),
                         !.nextId = @ + 1],
              inserted_count |-> st.inserted_count + 1],
             i, ls, k + 1, failing)

RECURSIVE InsertLines(_, _, _, _, _)
\* the insert loop of _replace_invoice_lines: [db, inserted_count]; the
\* inserts at the positions in `failing` raise and are skipped
InsertLines(st, i, ls, k, failing) ==
    IF k > Len(ls) THEN st
    ELSE IF k \in failing
    THEN InsertLines([st EXCEPT !.db.nextId = @ + 1], i, ls, k + 1, failing)
    ELSE InsertLines([db |-> [st.db EXCEPT
                                 !.lines = Append(@, LineRecord(st.db.nextId, i, ls[k])),
                                 !.nextId = @ + 1],
                      inserted_count |-> st.inserted_count + 1],
                     i, ls, k + 1, failing)

\* the inserts without the delete before them
AppendInvoiceLines(db, i, ls, failing) ==
    InsertLines([db |-> db, inserted_count |-> 0], i, ls, 1, failing)

\* a replacement whose delete spares the lines that carry a status
ReplaceUnresolvedLines(db, i, ls, failing) ==
    LET deleted == [db EXCEPT !.lines = SelectSeq(@, LAMBDA l :
                                  l.invoice_id # i \/ l.status # NULL)]
    IN InsertLines([db |-> deleted, inserted_count |-> 0], i, ls, 1, failing)

\* PDFParserService._replace_invoice_lines (the delete did not raise)
ReplaceInvoiceLines(db, i, ls, failing) ==
    LET deleted == [db EXCEPT !.lines = SelectSeq(@, LAMBDA l : l.invoice_id # i)]
    IN InsertLines([db |-> deleted, inserted_count |-> 0], i, ls, 1, failing)

\* a guard that marks the invoice parsed whatever the count
ParsedGuardAlways(line_count) == line_count >= 0

\* the condition under which parse_invoice marks the invoice parsed
ParsedGuard(line_count) == line_count > 0

\* PDFParserService._update_invoice_status_to_parsed
UpdateInvoiceStatusToParsed(db, i) ==
    [db EXCEPT !.invoices[i] = [@ EXCEPT !.status = "parsed", !.parsed_at = TRUE]]

\* what may go wrong in one parse_invoice: the download or the extraction
\* call raises (pre), the header update raises (header), the delete raises
\* (delete), the inserts at some positions raise (inserts), the status
\* update raises (status)
ExtractFaults(doc) ==
    [pre : BOOLEAN, header : BOOLEAN, delete : BOOLEAN,
     inserts : SUBSET (DOMAIN doc.lines), status : BOOLEAN]

NoExtractFault ==
    [pre |-> FALSE, header |-> FALSE, delete |-> FALSE, inserts |-> {}, status |-> FALSE]

\* a header update that fails is logged and parse_invoice goes on
HeaderFailureRaises == TRUE
HeaderFailureIsFatal == FALSE

\* PDFParserService.parse_invoice: [db, result, line_count]
ParseInvoice(db, i, doc, f) ==
    IF i \notin DOMAIN db.invoices
    THEN [db |-> db, result |-> "ValueError", line_count |-> 0]
    ELSE IF f.pre THEN [db |-> db, result |-> "raised", line_count |-> 0]
    ELSE IF f.header /\ HeaderFailureIsFatal
    THEN [db |-> db, result |-> "raised", line_count |-> 0]
    ELSE LET headed == IF f.header THEN db ELSE UpdateInvoiceHeaderFields(db, i, doc)
             cleaned_lines == CleanInvoiceLines(doc.lines)
         IN IF f.delete THEN [db |-> headed, result |-> "raised", line_count |-> 0]
            ELSE LET replaced == ReplaceInvoiceLines(headed, i, cleaned_lines, f.inserts)
                     line_count == replaced.inserted_count
                 IN IF ParsedGuard(line_count)
                    THEN IF f.status
                         THEN [db |-> replaced.db, result |-> "raised",
                               line_count |-> line_count]
                         ELSE [db |-> LogAudit(UpdateInvoiceStatusToParsed(replaced.db, i),
                                               "invoice", i, "INVOICE_PARSED"),
                               result |-> "ok", line_count |-> line_count]
                    ELSE [db |-> LogAudit(replaced.db, "invoice", i, "INVOICE_PARSED"),
                          result |-> "ok", line_count |-> line_count]

\* the storage mutations of an undisturbed parse_invoice: the header update,
\* the delete, one insert per line, the status update when a line was
\* inserted, the audit entry
ParseMutations(doc) ==
    Len(doc.lines) + (IF Len(doc.lines) > 0 THEN 4 ELSE 3)

\* the tables after the first k of these mutations
ParsePrefix(db, i, doc, k) ==
    LET cleaned_lines == CleanInvoiceLines(doc.lines)
        n == Len(cleaned_lines)
        headed == UpdateInvoiceHeaderFields(db, i, doc)
        inserted(m) == ReplaceInvoiceLines(headed, i, SubSeq(cleaned_lines, 1, m), {}).db
    IN IF k = 0 THEN db
       ELSE IF k = 1 THEN headed
       ELSE IF k <= 2 + n THEN inserted(k - 2)
       ELSE IF k = 3 + n /\ n > 0 THEN UpdateInvoiceStatusToParsed(inserted(n), i)
       ELSE ParseInvoice(db, i, doc, NoExtractFault).db

\* the tables after the first k storage writes of validate_invoice and the
\* audit entries made between them; after the last write the closing audit
\* entry is still missing
ValidatePrefix(db, invoice_id, k) ==
    LET cut == ValidateInvoice(db, k, invoice_id)
    IN IF cut.db.raised THEN [cut.db EXCEPT !.raised = FALSE, !.n = 0]
       ELSE [cut.db EXCEPT !.audit = SubSeq(@, 1, Len(@) - 1), !.n = 0]

----------------------------------------------------------------------------
(* MismatchResolutionService *)

\* MismatchResolutionService.accept_price: [db, result].  The line is read
\* first (ValueError when absent); the next statement calls
\* validation_service.get_supplier_id_by_name, which ValidationService does
\* not define, so the call raises AttributeError and the statements after it
\* (closing the open record, inserting the new one, the audit entry, the
\* re-validation) are never reached.
AcceptPrice(db, invoice_line_id, new_price, valid_from) ==
    IF ~\E k \in DOMAIN db.lines : db.lines[k].id = invoice_line_id
    THEN [db |-> db, result |-> "ValueError"]
    ELSE [db |-> db, result |-> "AttributeError"]

\* POST /validation/accept-price: a ValueError of the service is answered
\* with 404, every other exception with 500
AcceptPriceEndpoint(result) ==
    IF result = "ok" THEN 200 ELSE IF result = "ValueError" THEN 404 ELSE 500

\* a disputed invoice that is disputed again, written otherwise
ToggleDisputed(status) ==
    IF status = "disputed" THEN "needs_review" ELSE "disputed"

\* the status dispute_invoice writes to the invoice, whatever it was
DisputedStatus(status) == "disputed"

\* every line set to no_match as soon as one is listed
UpdateAllLines(db, fault, line_ids) ==
    IF line_ids = {} THEN db
    ELSE Write(db, fault, [db EXCEPT !.lines =
            [k \in DOMAIN db.lines |-> [db.lines[k] EXCEPT !.status = "no_match"]]])

RECURSIVE UpdateDisputedLines(_, _, _)
\* for line_id in line_ids: update({"status": "no_match"}).eq("id", line_id);
\* the update selects by the id alone
UpdateDisputedLines(db, fault, line_ids) ==
    IF line_ids = {} THEN db
    ELSE LET id == CHOOSE x \in line_ids : \A y \in line_ids : x <= y
         IN UpdateDisputedLines(UpdateInvoiceLineStatus(db, fault, id, "no_match"),
                                fault, line_ids \ {id})

\* MismatchResolutionService._log_dispute
LogDispute(db, i) == LogAudit(db, "invoices", i, "invoice_dispute")

\* MismatchResolutionService.dispute_invoice: the invoice is updated by its
\* id, without a look whether it exists
DisputeInvoice(db, fault, i, line_ids) ==
    LET db1 == Write(db, fault,
                   [db EXCEPT !.invoices = [j \in DOMAIN db.invoices |->
                       IF j = i
                       THEN [db.invoices[j] EXCEPT !.status = DisputedStatus(@)]
                       ELSE db.invoices[j]]])
        db2 == UpdateDisputedLines(db1, fault, line_ids)
        db3 == LogDispute(db2, i)
    IN [db |-> db3, result |-> IF db3.raised THEN "raised" ELSE "ok"]

----------------------------------------------------------------------------
(* The state machine of the service calls *)

PriceRow(id, supplier, sku, name, price, status, from, to, source) ==
    [id |-> id, supplier_name |-> supplier, sku |-> sku, product_name |-> name,
     currency |-> "EUR", unit_price |-> price, status |-> status,
     valid_from |-> from, valid_to |-> to, source |-> source]

\* the price books the runs start from
InitPriceBooks ==
    { << PriceRow(1, "S2", "A", NULL, 110, "active", "2024-01-01", NULL, "manual"),
         PriceRow(2, "S1", "A", NULL, 100, "active", "2024-01-01", NULL, "manual") >>,
      << PriceRow(1, "S1", "A", NULL, 100, "active", "2024-01-01", "2024-01-02", "manual"),
         PriceRow(2, "S1", "A", NULL, 110, "active", "2024-01-02", NULL, "manual") >>,
      << PriceRow(1, "S1", NULL, "Widget", 100, "active", NULL, NULL, "manual"),
         PriceRow(2, "S1", "B", NULL, 90, "need_review", "2024-01-02", NULL,
                  "learned_from_invoice") >>,
      << PriceRow(1, "S1", "A", NULL, 100, "active", "2024-01-03", NULL, "manual") >> }

\* ids 1 and 2 are taken by the rows of the price books above
FirstFreeId == 2 + 1

\* a row of table invoices as EmailPollingService.insert_invoice leaves it
ReceivedInvoice(message_id) ==
    [status |-> "received", supplier_name |-> NULL, invoice_date |-> NULL,
     currency |-> NULL, parsed_at |-> FALSE, validated_at |-> FALSE,
     source_message_id |-> message_id]

\* the history of a call: before is the status the invoice (for accept_price:
\* the line) had when the call began, rows_before the number of price records
\* then, status_written whether an abandoned call had written the status,
\* fault what went wrong in a parse_invoice whose faults are recorded,
\* first_id the first id that was free when it began, old the ids and
\* statuses of the lines the invoice had then
NoOp ==
    [op |-> "none", inv |-> 0, result |-> "none", before |-> NULL, count |-> 0,
     line |-> 0, price |-> 0, valid_from |-> 0, open_before |-> {},
     rows_before |-> 0, status_written |-> FALSE, ids |-> {},
     fault |-> NoExtractFault, first_id |-> 0, old |-> {}]

OrchOff == [pc |-> "off"]

\* no polling task: pc is the position of the task, enabled the setting
\* ENABLE_BACKGROUND_POLLING the process was started with (False unless the
\* environment sets it), polls and restarts count its polls and the
\* restarts of the process
NoPoller == [enabled |-> FALSE, pc |-> "off", polls |-> 0, restarts |-> 0]
NoMail == [unread |-> {}, processed |-> {}, doc |-> <<>>, name |-> <<>>]

Init ==
    /\ invoices = [i \in InvIds |-> ReceivedInvoice(i)]
    /\ pdf \in [InvIds -> DocIds]
    /\ lines = <<>>
    /\ priceBook \in InitPriceBooks
    /\ audit = <<>>
    /\ nextId = FirstFreeId
    /\ lastOp = NoOp
    /\ prevSnap = NoSnap
    /\ valSnap = [i \in InvIds |-> NoSnap]
    /\ mail = NoMail
    /\ orch = OrchOff
    /\ poller = NoPoller

SetDb(db) ==
    /\ invoices' = db.invoices
    /\ lines' = db.lines
    /\ priceBook' = db.priceBook
    /\ audit' = db.audit
    /\ nextId' = db.nextId

\* the statuses of an invoice and of its lines
Snap(invs, ls, i) ==
    [status |-> invs[i].status,
     lines |-> {<<ls[k].id, ls[k].status>> :
                   k \in {j \in DOMAIN ls : ls[j].invoice_id = i}}]

StatusOf(invs, i) == IF i \in DOMAIN invs THEN invs[i].status ELSE NULL

\* one call of validate_invoice, with the history it leaves
CallValidate(i, fault) ==
    LET r == ValidateInvoice(DB, fault, i)
    IN /\ SetDb(r.db)
       /\ lastOp' = [NoOp EXCEPT !.op = "validate", !.inv = i, !.result = r.result,
                                 !.before = StatusOf(invoices, i),
                                 !.rows_before = Len(priceBook)]
       /\ prevSnap' = IF i \in DOMAIN valSnap THEN valSnap[i] ELSE NoSnap
       /\ valSnap' = IF r.result = "ok"
                     THEN [valSnap EXCEPT ![i] = Snap(r.db.invoices, r.db.lines, i)]
                     ELSE valSnap

\* one call of parse_invoice, with the history it leaves: count is the
\* number of rows of the invoice that the call added to invoice_lines
CallParse(i, f) ==
    LET r == ParseInvoice(DB, i, Extracted(pdf[i]), f)
    IN /\ SetDb(r.db)
       /\ lastOp' = [NoOp EXCEPT !.op = "parse", !.inv = i, !.result = r.result,
                                 !.before = StatusOf(invoices, i),
                                 !.count = Cardinality({k \in DOMAIN r.db.lines :
                                                r.db.lines[k].id >= nextId})]
       /\ prevSnap' = NoSnap
       /\ valSnap' = [valSnap EXCEPT ![i] = NoSnap]

\* the open-ended rows of the price book for the key of a line
OpenRowsFor(pb, invs, ls, line_id) ==
    {pb[k].id : k \in {j \in DOMAIN pb :
        \E m \in DOMAIN ls :
            /\ ls[m].id = line_id
            /\ ls[m].sku # NULL
            /\ pb[j].supplier_name = invs[ls[m].invoice_id].supplier_name
            /\ pb[j].sku = ls[m].sku
            /\ pb[j].status = "active"
            /\ pb[j].valid_to = NULL}}

\* the status of a line, NULL for an id no line has
LineStatus(ls, line_id) ==
    IF \E k \in DOMAIN ls : ls[k].id = line_id
    THEN ls[CHOOSE k \in DOMAIN ls : ls[k].id = line_id].status ELSE NULL

\* POST /validation/invoice/{id}
Validate(i, fault) ==
    /\ Len(audit) < MaxAudit
    /\ Len(priceBook) < MaxBook
    /\ CallValidate(i, fault)
    /\ UNCHANGED <<pdf, mail, orch, poller>>

\* parse_invoice as process_received_invoices_batch calls it: on an invoice
\* it selected by status = received
Parse(i, f) ==
    /\ Len(audit) < MaxAudit
    /\ nextId < MaxId
    /\ invoices[i].status = "received"
    /\ CallParse(i, f)
    /\ UNCHANGED <<pdf, mail, orch, poller>>

\* POST /validation/accept-price
Accept(line_id, new_price, valid_from) ==
    LET r == AcceptPrice(DB, line_id, new_price, valid_from)
    IN /\ SetDb(r.db)
       /\ lastOp' = [NoOp EXCEPT !.op = "accept_price", !.result = r.result,
                                 !.before = LineStatus(lines, line_id),
                                 !.line = line_id, !.price = new_price,
                                 !.valid_from = valid_from,
                                 !.open_before = OpenRowsFor(priceBook, invoices, lines,
                                                             line_id)]
       /\ UNCHANGED <<pdf, mail, orch, poller, prevSnap, valSnap>>

LineIds == {lines[k].id : k \in DOMAIN lines}
AcceptPrices == {110}
AcceptDates == {2}

Next ==
    \/ \E i \in AnyInvId, fault \in NoFault..MaxFault : Validate(i, fault)
    \/ \E i \in InvIds : \E f \in ExtractFaults(Extracted(pdf[i])) : Parse(i, f)
    \/ \E l \in LineIds \cup {0}, p \in AcceptPrices, d \in AcceptDates : Accept(l, p, d)

Spec == Init /\ [][Next]_vars

----------------------------------------------------------------------------
(* The state machine of the dispute calls: two invoices, their extraction,
   their validation and disputes of either *)

DisputeInvIds == {1, 2}
DisputeDocs == [i \in DisputeInvIds |-> IF i = 1 THEN {"a_pair"} ELSE {"a_match"}]

InitDispute ==
    /\ invoices = [i \in DisputeInvIds |-> ReceivedInvoice(i)]
    /\ pdf \in {f \in [DisputeInvIds -> DocIds] :
                    \A i \in DisputeInvIds : f[i] \in DisputeDocs[i]}
    /\ lines = <<>>
    /\ priceBook = << PriceRow(1, "S2", "A", NULL, 110, "active", "2024-01-01",
                               NULL, "manual"),
                      PriceRow(2, "S1", "A", NULL, 100, "active", "2024-01-01",
                               NULL, "manual") >>
    /\ audit = <<>>
    /\ nextId = FirstFreeId
    /\ lastOp = NoOp
    /\ prevSnap = NoSnap
    /\ valSnap = [i \in DisputeInvIds |-> NoSnap]
    /\ mail = NoMail
    /\ orch = OrchOff
    /\ poller = NoPoller

\* POST /validation/dispute; count tells whether the call repeats the one
\* before it
Dispute(i, line_ids, fault) ==
    LET r == DisputeInvoice(DB, fault, i, line_ids)
        again == /\ lastOp.op = "dispute" /\ lastOp.result = "ok"
                 /\ lastOp.inv = i /\ lastOp.ids = line_ids
    IN /\ Len(audit) < MaxAudit
       /\ SetDb(r.db)
       /\ lastOp' = [NoOp EXCEPT !.op = "dispute", !.inv = i, !.result = r.result,
                                 !.before = StatusOf(invoices, i),
                                 !.ids = line_ids,
                                 !.count = IF again /\ r.result = "ok" THEN 2 ELSE 1]
       /\ UNCHANGED <<pdf, mail, orch, poller, prevSnap, valSnap>>

\* the line_ids of a request: none, one stored line, or all of them
DisputeIdSets == {{}, LineIds} \cup {{id} : id \in LineIds}

NextDispute ==
    \/ \E i \in DisputeInvIds : Validate(i, NoFault)
    \/ \E i \in DisputeInvIds : Parse(i, NoExtractFault)
    \/ \E i \in DisputeInvIds \cup {0}, ids \in DisputeIdSets,
          fault \in {NoFault, MaxFault} : Dispute(i, ids, fault)

SpecDispute == InitDispute /\ [][NextDispute]_vars

----------------------------------------------------------------------------
(* The state machine of abandoned steps: the process stops (a crash, a
   cancelled task) between two storage mutations of extract or validate,
   and the step is run again *)

\* the statuses of an invoice and of its lines, the lines in line_no order
SnapByLineNo(invs, ls, i) ==
    LET o == OrderByLineNo(LinesOf(ls, i))
    IN [status |-> invs[i].status,
        lines |-> [k \in DOMAIN o |-> <<o[k].line_no, o[k].status>>]]

\* validate_invoice stopped after k of its storage writes; prevSnap keeps
\* what the undisturbed call would have left
CrashValidate(i, k) ==
    LET whole == ValidateInvoice(DB, NoFault, i)
    IN /\ Len(audit) < MaxAudit
       /\ Len(priceBook) < MaxBook
       /\ k \in 1..whole.db.n
       /\ SetDb(ValidatePrefix(DB, i, k))
       /\ lastOp' = [NoOp EXCEPT !.op = "validate", !.inv = i, !.result = "abandoned",
                                 !.before = StatusOf(invoices, i), !.count = k,
                                 !.rows_before = Len(priceBook),
                                 !.status_written = (k = whole.db.n)]
       /\ prevSnap' = Snap(whole.db.invoices, whole.db.lines, i)
       /\ valSnap' = [valSnap EXCEPT ![i] = NoSnap]
       /\ UNCHANGED <<pdf, mail, orch, poller>>

\* parse_invoice stopped after k of its storage mutations
CrashParse(i, k) ==
    LET doc == Extracted(pdf[i])
        whole == ParseInvoice(DB, i, doc, NoExtractFault)
    IN /\ Len(audit) < MaxAudit
       /\ nextId < MaxId
       /\ invoices[i].status = "received"
       /\ k \in 1..(ParseMutations(doc) - 1)
       /\ SetDb(ParsePrefix(DB, i, doc, k))
       /\ lastOp' = [NoOp EXCEPT !.op = "parse", !.inv = i, !.result = "abandoned",
                                 !.before = StatusOf(invoices, i), !.count = k,
                                 !.status_written = (k = ParseMutations(doc) - 1
                                                       /\ Len(doc.lines) > 0)]
       /\ prevSnap' = SnapByLineNo(whole.db.invoices, whole.db.lines, i)
       /\ valSnap' = [valSnap EXCEPT ![i] = NoSnap]
       /\ UNCHANGED <<pdf, mail, orch, poller>>

\* the most storage mutations a step of these documents makes
MaxMutations == 6

NextCrash ==
    \/ \E i \in InvIds : Validate(i, NoFault)
    \/ \E i \in InvIds : Parse(i, NoExtractFault)
    \/ \E i \in InvIds, k \in 1..MaxMutations : CrashValidate(i, k)
    \/ \E i \in InvIds, k \in 1..MaxMutations : CrashParse(i, k)

SpecCrash == Init /\ [][NextCrash]_vars

----------------------------------------------------------------------------
(* The state machine of the price comparison: one invoice with one line of
   sku A, one active record for the sku, the prices of the two drawn from
   several magnitudes *)

\* the reference prices (0.001, 0.002, 0.005, 0.12345, 0.3, 1 and 100) and
\* the differences of the line's price to them
PriceExpected == {100, 200, 500, 12345, 30000, 100000, 10000000}
PriceOffsets == {0 - 10, 0 - 9, 0, 9, 10}

\* what the extraction returns for an invoice with one line at unit_price
PricedDoc(unit_price) ==
    RawDoc("S1", "2024-01-02", "EUR",
           <<RawLine(1, "A", "Widget", Some(unit_price), Some(1))>>)

InitPrice ==
    /\ invoices = [i \in InvIds |-> ReceivedInvoice(i)]
    /\ pdf = [i \in InvIds |-> "a_match"]
    /\ lines = <<>>
    /\ priceBook \in {<< PriceRow(1, "S1", "A", NULL, e, "active", "2024-01-01",
                                  NULL, "manual") >> : e \in PriceExpected}
    /\ audit = <<>>
    /\ nextId = FirstFreeId
    /\ lastOp = NoOp
    /\ prevSnap = NoSnap
    /\ valSnap = [i \in InvIds |-> NoSnap]
    /\ mail = NoMail
    /\ orch = OrchOff
    /\ poller = NoPoller

\* parse_invoice on a received invoice whose PDF is extracted to a line at
\* unit_price
ParsePriced(i, unit_price) ==
    LET r == ParseInvoice(DB, i, PricedDoc(unit_price), NoExtractFault)
    IN /\ invoices[i].status = "received"
       /\ SetDb(r.db)
       /\ lastOp' = [NoOp EXCEPT !.op = "parse", !.inv = i, !.result = r.result,
                                 !.before = StatusOf(invoices, i),
                                 !.count = r.line_count]
       /\ prevSnap' = NoSnap
       /\ valSnap' = [valSnap EXCEPT ![i] = NoSnap]
       /\ UNCHANGED <<pdf, mail, orch, poller>>

NextPrice ==
    \/ \E i \in InvIds, d \in PriceOffsets : ParsePriced(i, priceBook[1].unit_price + d)
    \/ \E i \in InvIds, fault \in NoFault..MaxFault : Validate(i, fault)

SpecPrice == InitPrice /\ [][NextPrice]_vars

----------------------------------------------------------------------------
(* The state machine of a price book that changes: the active records,
   which this service reads and never writes, are kept by hand in the
   table; between two calls one of them may get another price *)

ManualPrices == {100, 110}

\* the unit_price of active record k is set to p in the table
PriceRecordChanged(k, p) ==
    /\ k \in DOMAIN priceBook
    /\ priceBook[k].status = "active"
    /\ priceBook[k].unit_price # p
    /\ priceBook' = [priceBook EXCEPT ![k].unit_price = p]
    /\ lastOp' = [NoOp EXCEPT !.op = "price_changed", !.line = k, !.price = p]
    /\ UNCHANGED <<invoices, pdf, lines, audit, nextId, prevSnap, valSnap, mail, orch,
                   poller>>

NextBook ==
    \/ \E i \in InvIds : Validate(i, NoFault)
    \/ \E i \in InvIds : Parse(i, NoExtractFault)
    \/ \E k \in 1..2, p \in ManualPrices : PriceRecordChanged(k, p)

SpecBook == Init /\ [][NextBook]_vars

----------------------------------------------------------------------------
(* The state machine of extraction under storage failures: parse_invoice
   with any of its storage calls failing, run again while the invoice is
   still received, and validate_invoice in between *)

ExtractDocs == {"empty", "a_pair", "b_noprice", "dotted"}

InitExtract ==
    /\ invoices = [i \in InvIds |-> ReceivedInvoice(i)]
    /\ pdf \in [InvIds -> ExtractDocs]
    /\ lines = <<>>
    /\ priceBook = << PriceRow(1, "S2", "A", NULL, 110, "active", "2024-01-01",
                               NULL, "manual"),
                      PriceRow(2, "S1", "A", NULL, 100, "active", "2024-01-01",
                               NULL, "manual") >>
    /\ audit = <<>>
    /\ nextId = FirstFreeId
    /\ lastOp = NoOp
    /\ prevSnap = NoSnap
    /\ valSnap = [i \in InvIds |-> NoSnap]
    /\ mail = NoMail
    /\ orch = OrchOff
    /\ poller = NoPoller

\* parse_invoice on a received invoice, the history keeping what failed,
\* the first free id and the number of lines the call reported
Extract(i, f) ==
    LET r == ParseInvoice(DB, i, Extracted(pdf[i]), f)
    IN /\ Len(audit) < MaxAudit
       /\ nextId <= MaxId
       /\ invoices[i].status = "received"
       /\ SetDb(r.db)
       /\ lastOp' = [NoOp EXCEPT !.op = "parse", !.inv = i, !.result = r.result,
                                 !.before = StatusOf(invoices, i),
                                 !.count = r.line_count,
                                 !.fault = f, !.first_id = nextId,
                                 !.old = Snap(invoices, lines, i).lines]
       /\ prevSnap' = NoSnap
       /\ valSnap' = [valSnap EXCEPT ![i] = NoSnap]
       /\ UNCHANGED <<pdf, mail, orch, poller>>

NextExtract ==
    \/ \E i \in InvIds : \E f \in ExtractFaults(Extracted(pdf[i])) : Extract(i, f)
    \/ \E i \in InvIds, fault \in NoFault..MaxFault : Validate(i, fault)

SpecExtract == InitExtract /\ [][NextExtract]_vars

----------------------------------------------------------------------------
(* EmailPollingService *)

\* settings.MAX_EMAILS_PER_RUN
MAX_EMAILS_PER_RUN == 5

\* the setting read as False whatever it holds
FlagOff == FALSE

\* settings.ENABLE_BACKGROUND_POLLING, as the process was started with it
ENABLE_BACKGROUND_POLLING == poller.enabled

\* the messages of the mailbox, numbered in the order they were received
Msgs == {1, 2}

RECURSIVE NewestFirst(_)
\* $orderby receivedDateTime desc
NewestFirst(S) ==
    IF S = {} THEN <<>>
    ELSE LET m == CHOOSE x \in S : \A y \in S : y <= x
         IN <<m>> \o NewestFirst(S \ {m})

\* fetch_emails: the unread messages with an attachment, newest first, cut to
\* MAX_EMAILS_PER_RUN
FetchEmails(m) ==
    LET all == NewestFirst(m.unread)
    IN SubSeq(all, 1, IF Len(all) < MAX_EMAILS_PER_RUN THEN Len(all)
                      ELSE MAX_EMAILS_PER_RUN)

\* the PATCH of mark_emails_as_read: it writes isRead = false, so the message
\* stays among the unread ones
MarkEmailsAsRead(unread, msg) == unread

\* the file names of the attachments; mail.name gives the one of each
\* message, OwnNames gives every message a name of its own
FileNames == {"invoice.pdf", "scan 1.pdf", "scan_1.pdf"}
OwnNames == [m \in Msgs |-> IF m = 1 THEN "invoice.pdf" ELSE "scan 1.pdf"]

\* filename.replace(" ", "_").replace("/", "_")
SafeFilename(filename) ==
    CASE filename = "scan 1.pdf" -> "scan_1.pdf"
      [] OTHER -> filename

\* the invoices whose stored file has the safe file name of the attachment
\* of msg after its timestamp prefix.  The files of the bucket are the ones
\* the ingested invoices refer to: each ingestion stores one and none is
\* ever removed.
ExistingFile(invs, m, msg) ==
    {j \in DOMAIN invs :
        SafeFilename(m.name[invs[j].source_message_id]) = SafeFilename(m.name[msg])}

\* save_pdf_to_pdfs_bucket, as the document the returned storage path
\* holds: the one of the existing file of that name, if there is any, else
\* the attachment that is uploaded
SavePdfToPdfsBucket(pdfs, invs, m, msg) ==
    LET existing == ExistingFile(invs, m, msg)
    IN IF existing # {}
       THEN pdfs[CHOOSE j \in existing : \A k \in existing : j <= k]
       ELSE m.doc[msg]

\* process_email on state st = [db, pdf, mail, processed]: a message already
\* in processed_message_ids is skipped; a failure before the insert (the
\* attachment, the upload, the insert itself) leaves nothing behind
ProcessEmail(st, msg, fails) ==
    IF msg \in st.mail.processed \/ fails
    THEN st
    ELSE LET invoice_id == Len(st.db.invoices) + 1
             inserted == [st.db EXCEPT !.invoices = Append(@, ReceivedInvoice(msg))]
             logged == LogAudit(LogAudit(inserted, "invoice", invoice_id, "EMAIL_INGESTED"),
                                "invoice", invoice_id, "PDF_STORED")
         IN [db |-> logged,
             pdf |-> Append(st.pdf, SavePdfToPdfsBucket(st.pdf, st.db.invoices,
                                                         st.mail, msg)),
             mail |-> [st.mail EXCEPT !.unread = MarkEmailsAsRead(@, msg),
                                      !.processed = @ \cup {msg}],
             processed |-> st.processed + 1]

RECURSIVE ProcessEmails(_, _, _)
ProcessEmails(st, emails, failing) ==
    IF emails = <<>> THEN st
    ELSE ProcessEmails(ProcessEmail(st, Head(emails), Head(emails) \in failing),
                       Tail(emails), failing)

\* poll_and_process_emails: raises when fetch_emails raises
PollAndProcessEmails(db, pdfs, m, fetch_raises, failing) ==
    LET st == [db |-> db, pdf |-> pdfs, mail |-> m, processed |-> 0]
    IN IF fetch_raises THEN [st |-> st, result |-> "raised"]
       ELSE [st |-> ProcessEmails(st, FetchEmails(m), failing), result |-> "ok"]

----------------------------------------------------------------------------
(* The orchestrator of main.py *)

\* the documents the mailbox may hold, and the extraction faults a drain meets
OrchDocs == {"empty", "a_match", "b_twice"}
OrchFaults(doc) ==
    {NoExtractFault, [NoExtractFault EXCEPT !.pre = TRUE],
     [NoExtractFault EXCEPT !.inserts = DOMAIN doc.lines]}

OrchPriceBook ==
    << PriceRow(1, "S2", "A", NULL, 110, "active", "2024-01-01", NULL, "manual"),
       PriceRow(2, "S1", "A", NULL, 100, "active", "2024-01-01", NULL, "manual") >>

\* the orchestrator task: pc is its position, drain the status the running
\* drain works on, batch the rows the last fetch returned, queue the rows of
\* the batch not yet gone through.  The other fields are history: tried and
\* failed (the invoices of the batch the service was called on, and those it
\* raised for), fetched (how the last fetch of the drain ended), adv (the
\* drain last left and what its last fetch had returned), moves (the status
\* changes of the running drain pass), exc (the last exception caught), why
\* (what ended the task), fetches (the number of fetches so far), polls (the
\* calls of poll_and_process_emails in the running cycle).
OrchStart ==
    [pc |-> "poll", drain |-> "none", batch |-> <<>>, queue |-> <<>>,
     processed_count |-> 0, tried |-> {}, failed |-> {}, fetched |-> "none",
     adv |-> <<>>, moves |-> <<>>, exc |-> "none", why |-> "none", fetches |-> 0,
     polls |-> 0]

InitOrch ==
    /\ invoices = <<>>
    /\ pdf = <<>>
    /\ lines = <<>>
    /\ priceBook = OrchPriceBook
    /\ audit = <<>>
    /\ nextId = FirstFreeId
    /\ lastOp = NoOp
    /\ prevSnap = NoSnap
    /\ valSnap = <<>>
    /\ mail \in {[unread |-> Msgs, processed |-> {}, doc |-> d, name |-> OwnNames] :
                     d \in [Msgs -> OrchDocs]}
    /\ orch = OrchStart
    /\ poller = NoPoller

RECURSIVE IdsWithStatus(_, _, _)
IdsWithStatus(invs, status, i) ==
    IF i > Len(invs) THEN <<>>
    ELSE (IF invs[i].status = status THEN <<i>> ELSE <<>>)
         \o IdsWithStatus(invs, status, i + 1)

\* a fetch that leaves the status filter out
FetchAll(invs, status) ==
    LET ids == [i \in 1..Len(invs) |-> i]
    IN SubSeq(ids, 1, IF Len(ids) < MAX_EMAILS_PER_RUN THEN Len(ids)
                      ELSE MAX_EMAILS_PER_RUN)

\* select("id").eq("status", status).limit(MAX_EMAILS_PER_RUN)
FetchByStatus(invs, status) ==
    LET ids == IdsWithStatus(invs, status, 1)
    IN SubSeq(ids, 1, IF Len(ids) < MAX_EMAILS_PER_RUN THEN Len(ids)
                      ELSE MAX_EMAILS_PER_RUN)

\* a drain begins: its pass has seen no fetch and no status change yet
StartDrain(o, status) ==
    [o EXCEPT !.pc = "fetch", !.drain = status, !.batch = <<>>, !.queue = <<>>,
              !.processed_count = 0, !.tried = {}, !.failed = {},
              !.fetched = "none", !.moves = <<>>]

\* the break of a drain loop: drain-received is followed by drain-parsed,
\* drain-parsed by the sleep of the cycle
Advance(o) ==
    LET left == [o EXCEPT !.adv = <<o.drain, o.fetched>>]
    IN IF o.drain = "received" THEN StartDrain(left, "parsed")
       ELSE [left EXCEPT !.pc = "sleep", !.drain = "none", !.moves = <<>>]

\* except Exception of the mail poll: logged, the cycle goes on
OnPollError(o) == [o EXCEPT !.exc = "poll"]

\* a per-invoice handler that gives the batch up
AbortBatch(o, i) == [o EXCEPT !.queue = <<>>, !.failed = @ \cup {i}, !.exc = "invoice"]

\* except Exception around one invoice: logged, the batch goes on
OnInvoiceFailure(o, i) ==
    [o EXCEPT !.queue = Tail(@), !.failed = @ \cup {i}, !.exc = "invoice"]

\* a cycle handler that lets the exception through
EscapeCycleError(o) == [o EXCEPT !.pc = "done", !.why = "exception", !.exc = "cycle"]

\* except Exception of the cycle: logged, then asyncio.sleep(30)
OnCycleError(o) == [o EXCEPT !.pc = "backoff", !.exc = "cycle"]

\* step 1 of a cycle: the mail poll, unless a background task does the polling
OrchPoll(fetch_raises, failing) ==
    /\ orch.pc = "poll"
    /\ LET r == IF ENABLE_BACKGROUND_POLLING
                THEN [st |-> [db |-> DB, pdf |-> pdf, mail |-> mail], result |-> "ok"]
                ELSE PollAndProcessEmails(DB, pdf, mail, fetch_raises, failing)
           polled == IF ENABLE_BACKGROUND_POLLING THEN orch
                     ELSE [orch EXCEPT !.polls = @ + 1]
           caught == IF r.result = "raised" THEN OnPollError(polled) ELSE polled
       IN /\ SetDb(r.st.db)
          /\ pdf' = r.st.pdf
          /\ mail' = r.st.mail
          /\ valSnap' = [i \in 1..Len(r.st.db.invoices) |->
                            IF i \in DOMAIN valSnap THEN valSnap[i] ELSE NoSnap]
          /\ lastOp' = [NoOp EXCEPT !.op = "poll", !.result = r.result]
          /\ prevSnap' = NoSnap
          /\ orch' = IF caught.pc = "poll" THEN StartDrain(caught, "received") ELSE caught
          /\ poller' = poller

\* the head of process_*_invoices_batch: the fetch.  A fetch that raises and
\* a fetch that returns no row both make the function return 0, and a
\* returned 0 breaks the drain loop
AfterFetch(o, raises) ==
    LET rows == FetchByStatus(invoices, o.drain)
    IN IF raises THEN Advance([o EXCEPT !.fetched = "raised", !.exc = "fetch"])
       ELSE IF rows = <<>> THEN Advance([o EXCEPT !.fetched = "empty"])
       ELSE [o EXCEPT !.pc = "batch", !.fetched = "rows", !.batch = rows,
                      !.queue = rows, !.processed_count = 0,
                      !.tried = {}, !.failed = {}]

OrchFetch(raises) ==
    /\ orch.pc = "fetch"
    /\ orch.fetches < MaxFetches
    /\ orch' = AfterFetch([orch EXCEPT !.fetches = @ + 1], raises)
    /\ UNCHANGED <<dbVars, histVars, mail, poller>>

\* what one pass of the for loop leaves in the task: the call counted when it
\* returned, handed to the handler when it raised
AfterInvoice(o, i, result, before, after) ==
    LET seen == [o EXCEPT !.tried = @ \cup {i},
                          !.moves = IF before = after THEN @
                                    ELSE Append(@, <<i, before, after>>)]
    IN IF result = "ok"
       THEN [seen EXCEPT !.queue = Tail(@), !.processed_count = @ + 1]
       ELSE OnInvoiceFailure(seen, i)

\* one pass of the for loop of process_received_invoices_batch
OrchParse(f) ==
    /\ orch.pc = "batch"
    /\ orch.drain = "received"
    /\ orch.queue # <<>>
    /\ LET i == Head(orch.queue)
       IN /\ CallParse(i, f)
          /\ orch' = AfterInvoice(orch, i, lastOp'.result, invoices[i].status,
                                  invoices'[i].status)
    /\ UNCHANGED <<pdf, mail, poller>>

\* one pass of the for loop of process_parsed_invoices_batch
OrchValidate(fault) ==
    /\ orch.pc = "batch"
    /\ orch.drain = "parsed"
    /\ orch.queue # <<>>
    /\ LET i == Head(orch.queue)
       IN /\ CallValidate(i, fault)
          /\ orch' = AfterInvoice(orch, i, lastOp'.result, invoices[i].status,
                                  invoices'[i].status)
    /\ UNCHANGED <<pdf, mail, poller>>

\* the batch function returns processed_count: 0 breaks the drain loop, any
\* other count leads to asyncio.sleep(1) and the next fetch
OrchEndBatch ==
    /\ orch.pc = "batch"
    /\ orch.queue = <<>>
    /\ orch' = IF orch.processed_count = 0 THEN Advance(orch)
               ELSE [orch EXCEPT !.pc = "pause"]
    /\ UNCHANGED <<dbVars, histVars, mail, poller>>

\* asyncio.sleep(1) between two batches returns
OrchPause ==
    /\ orch.pc = "pause"
    /\ orch' = [orch EXCEPT !.pc = "fetch"]
    /\ UNCHANGED <<dbVars, histVars, mail, poller>>

\* the sleep that ends a cycle (POLL_INTERVAL_MINUTES, or 30 s after a
\* cycle-level exception) returns: while True starts the next cycle
OrchWake ==
    /\ orch.pc \in {"sleep", "backoff"}
    /\ orch' = [orch EXCEPT !.pc = "poll", !.drain = "none", !.moves = <<>>,
                            !.polls = 0]
    /\ UNCHANGED <<dbVars, histVars, mail, poller>>

\* an exception raised in the cycle outside the inner handlers (a statement
\* between the batches or before the sleep)
OrchCycleError ==
    /\ orch.pc \in {"pause", "sleep"}
    /\ orch' = OnCycleError(orch)
    /\ UNCHANGED <<dbVars, histVars, mail, poller>>

\* lifespan shutdown: task.cancel() reaches the task where it is suspended
OrchCancel ==
    /\ orch.pc \in {"poll", "pause", "sleep", "backoff"}
    /\ orch' = [orch EXCEPT !.pc = "done", !.why = "cancelled"]
    /\ UNCHANGED <<dbVars, histVars, mail, poller>>

\* the extraction faults the invoice at the head of the queue may meet
HeadFaults ==
    IF orch.pc = "batch" /\ orch.queue # <<>>
    THEN OrchFaults(Extracted(pdf[Head(orch.queue)])) ELSE {}

NextOrch ==
    \/ \E fetch_raises \in BOOLEAN, failing \in SUBSET Msgs : OrchPoll(fetch_raises, failing)
    \/ \E raises \in BOOLEAN : OrchFetch(raises)
    \/ \E f \in HeadFaults : OrchParse(f)
    \/ \E fault \in NoFault..MaxFault : OrchValidate(fault)
    \/ OrchEndBatch
    \/ OrchPause
    \/ OrchWake
    \/ OrchCycleError
    \/ OrchCancel

SpecOrch == InitOrch /\ [][NextOrch]_vars

----------------------------------------------------------------------------
(* The orchestrator running on: two ingested invoices, no mail, no
   shutdown, no bound on the number of fetches.  Of audit_log the newest
   MaxAudit rows are kept, which no step of the orchestrator reads. *)

DrainDocs == {"empty", "a_match"}

Newest(a) == IF Len(a) > MaxAudit THEN SubSeq(a, Len(a) - MaxAudit + 1, Len(a)) ELSE a

InitDrain ==
    /\ invoices = <<ReceivedInvoice(1), ReceivedInvoice(2)>>
    /\ pdf \in [1..2 -> DrainDocs]
    /\ lines = <<>>
    /\ priceBook = OrchPriceBook
    /\ audit = <<>>
    /\ nextId = FirstFreeId
    /\ lastOp = NoOp
    /\ prevSnap = NoSnap
    /\ valSnap = [i \in 1..2 |-> NoSnap]
    /\ mail = NoMail
    /\ orch = OrchStart
    /\ poller = NoPoller

\* process_*_invoices_batch, the fetch
DrainFetch(raises) ==
    /\ orch.pc = "fetch"
    /\ orch' = AfterFetch(orch, raises)
    /\ UNCHANGED <<dbVars, histVars, mail, poller>>

\* one pass of the for loop of process_received_invoices_batch: the
\* extraction raises before any write (raises) or runs to its end
DrainParse(raises) ==
    /\ orch.pc = "batch"
    /\ orch.drain = "received"
    /\ orch.queue # <<>>
    /\ LET i == Head(orch.queue)
           r == ParseInvoice(DB, i, Extracted(pdf[i]),
                             [NoExtractFault EXCEPT !.pre = raises])
       IN /\ SetDb([r.db EXCEPT !.audit = Newest(@)])
          /\ lastOp' = [NoOp EXCEPT !.op = "parse", !.inv = i, !.result = r.result,
                                    !.before = invoices[i].status,
                                    !.count = r.line_count]
          /\ orch' = AfterInvoice(orch, i, r.result, invoices[i].status,
                                  r.db.invoices[i].status)
    /\ UNCHANGED <<pdf, mail, poller, prevSnap, valSnap>>

\* one pass of the for loop of process_parsed_invoices_batch
DrainValidate(fault) ==
    /\ orch.pc = "batch"
    /\ orch.drain = "parsed"
    /\ orch.queue # <<>>
    /\ LET i == Head(orch.queue)
           r == ValidateInvoice(DB, fault, i)
       IN /\ SetDb([r.db EXCEPT !.audit = Newest(@)])
          /\ lastOp' = [NoOp EXCEPT !.op = "validate", !.inv = i, !.result = r.result,
                                    !.before = invoices[i].status,
                                    !.rows_before = Len(priceBook)]
          /\ orch' = AfterInvoice(orch, i, r.result, invoices[i].status,
                                  r.db.invoices[i].status)
    /\ UNCHANGED <<pdf, mail, poller, prevSnap, valSnap>>

\* a step of the orchestrator task
DrainStep ==
    \/ OrchPoll(FALSE, {})
    \/ \E raises \in BOOLEAN : DrainFetch(raises)
    \/ \E raises \in BOOLEAN : DrainParse(raises)
    \/ \E fault \in NoFault..MaxFault : DrainValidate(fault)
    \/ OrchEndBatch
    \/ OrchPause
    \/ OrchWake

NextDrain == DrainStep

\* the event loop runs the task whenever it can take a step: its awaits
\* and its sleeps return
SpecDrain == InitDrain /\ [][NextDrain]_vars /\ WF_vars(DrainStep)

----------------------------------------------------------------------------
(* The orchestrator and a backlog: one received invoice more than a batch
   holds, some of them with a stored PDF that cannot be read, so that
   parse_invoice raises for them on every attempt before it writes *)

\* a stored PDF for which the download or the text extraction raises
Unreadable == "unreadable"

BacklogIds == 1..(MAX_EMAILS_PER_RUN + 1)

InitBacklog ==
    /\ invoices = [i \in BacklogIds |-> ReceivedInvoice(i)]
    /\ pdf \in [BacklogIds -> {Unreadable, "a_match"}]
    /\ lines = <<>>
    /\ priceBook = OrchPriceBook
    /\ audit = <<>>
    /\ nextId = FirstFreeId
    /\ lastOp = NoOp
    /\ prevSnap = NoSnap
    /\ valSnap = [i \in BacklogIds |-> NoSnap]
    /\ mail = NoMail
    /\ orch = OrchStart
    /\ poller = NoPoller

\* the invoice the for loop is at has a PDF that cannot be read
HeadUnreadable == orch.queue # <<>> /\ pdf[Head(orch.queue)] = Unreadable

\* a step of the orchestrator task
BacklogStep ==
    \/ OrchPoll(FALSE, {})
    \/ DrainFetch(FALSE)
    \/ DrainParse(HeadUnreadable)
    \/ DrainValidate(NoFault)
    \/ OrchEndBatch
    \/ OrchPause
    \/ OrchWake

NextBacklog == BacklogStep

SpecBacklog == InitBacklog /\ [][NextBacklog]_vars /\ WF_vars(BacklogStep)

----------------------------------------------------------------------------
(* The process with its two tasks: lifespan starts the orchestrator, and the
   polling task when ENABLE_BACKGROUND_POLLING is set; the process may be
   restarted *)

MaxPolls == 2        \* the polling task stops after this many polls
MaxRestarts == 1     \* the process is restarted at most this many times

\* lifespan: the polling task is created only under the setting
StartPoller(p) ==
    [p EXCEPT !.pc = IF ENABLE_BACKGROUND_POLLING THEN "poll" ELSE "off"]

InitMail ==
    /\ invoices = <<>>
    /\ pdf = <<>>
    /\ lines = <<>>
    /\ priceBook = OrchPriceBook
    /\ audit = <<>>
    /\ nextId = FirstFreeId
    /\ lastOp = NoOp
    /\ prevSnap = NoSnap
    /\ valSnap = <<>>
    /\ mail = [unread |-> Msgs, processed |-> {}, doc |-> [m \in Msgs |-> "a_match"],
               name |-> OwnNames]
    /\ orch = OrchStart
    /\ poller \in {[NoPoller EXCEPT !.enabled = e, !.pc = IF e THEN "poll" ELSE "off"] :
                       e \in BOOLEAN}

\* poll_emails_periodically: one poll, then asyncio.sleep(60); an exception
\* of the poll is logged
PollerPoll(fetch_raises, failing) ==
    /\ poller.pc = "poll"
    /\ poller.polls < MaxPolls
    /\ LET r == PollAndProcessEmails(DB, pdf, mail, fetch_raises, failing)
       IN /\ SetDb(r.st.db)
          /\ pdf' = r.st.pdf
          /\ mail' = r.st.mail
          /\ valSnap' = [i \in 1..Len(r.st.db.invoices) |->
                            IF i \in DOMAIN valSnap THEN valSnap[i] ELSE NoSnap]
          /\ lastOp' = [NoOp EXCEPT !.op = "poll", !.result = r.result]
          /\ prevSnap' = NoSnap
    /\ poller' = [poller EXCEPT !.pc = "sleep", !.polls = @ + 1]
    /\ UNCHANGED orch

\* asyncio.sleep(60) of the polling task returns
PollerWake ==
    /\ poller.pc = "sleep"
    /\ poller' = [poller EXCEPT !.pc = "poll"]
    /\ UNCHANGED <<dbVars, histVars, mail, orch>>

\* the process ends and is started again: the tables, the stored PDFs and the
\* mailbox stay, EmailPollingService is built anew with an empty
\* processed_message_ids, and lifespan starts the tasks
Restart ==
    /\ poller.restarts < MaxRestarts
    /\ mail' = [mail EXCEPT !.processed = {}]
    /\ orch' = [OrchStart EXCEPT !.fetches = orch.fetches]
    /\ poller' = StartPoller([poller EXCEPT !.restarts = @ + 1])
    /\ UNCHANGED <<dbVars, histVars>>

NextMail ==
    \/ \E fetch_raises \in BOOLEAN : OrchPoll(fetch_raises, {})
    \/ OrchFetch(FALSE)
    \/ \E f \in HeadFaults \cap {NoExtractFault} : OrchParse(f)
    \/ OrchValidate(NoFault)
    \/ OrchEndBatch
    \/ OrchPause
    \/ OrchWake
    \/ \E fetch_raises \in BOOLEAN : PollerPoll(fetch_raises, {})
    \/ PollerWake
    \/ Restart

SpecMail == InitMail /\ [][NextMail]_vars

----------------------------------------------------------------------------
(* Ingestion of two messages with different PDFs, whose attachments may
   have the same file name *)

InitBucket ==
    /\ invoices = <<>>
    /\ pdf = <<>>
    /\ lines = <<>>
    /\ priceBook = OrchPriceBook
    /\ audit = <<>>
    /\ nextId = FirstFreeId
    /\ lastOp = NoOp
    /\ prevSnap = NoSnap
    /\ valSnap = <<>>
    /\ mail \in {[unread |-> Msgs, processed |-> {},
                  doc |-> [m \in Msgs |-> IF m = 1 THEN "a_match" ELSE "b_twice"],
                  name |-> n] : n \in [Msgs -> FileNames]}
    /\ orch = OrchStart
    /\ poller = NoPoller

NextBucket ==
    \/ \E failing \in SUBSET Msgs : OrchPoll(FALSE, failing)
    \/ OrchFetch(FALSE)
    \/ \E f \in HeadFaults \cap {NoExtractFault} : OrchParse(f)
    \/ OrchValidate(NoFault)
    \/ OrchEndBatch
    \/ OrchPause
    \/ OrchWake

SpecBucket == InitBucket /\ [][NextBucket]_vars

----------------------------------------------------------------------------
(* Two calls of poll_and_process_emails in one process: the call of the
   orchestrator or of the polling task, and the call a poll endpoint
   starts.  Both are coroutines of one event loop and share the one
   EmailPollingService; a coroutine gives way at its awaits.  mail.runs
   holds for each call its position (pc), the messages it fetched and has
   not gone through (emails), and the number of times it was started. *)

Runs == {"task", "endpoint"}

IdleRun == [pc |-> "idle", emails |-> <<>>, started |-> 0]

InitOverlap ==
    /\ invoices = <<>>
    /\ pdf = <<>>
    /\ lines = <<>>
    /\ priceBook = OrchPriceBook
    /\ audit = <<>>
    /\ nextId = FirstFreeId
    /\ lastOp = NoOp
    /\ prevSnap = NoSnap
    /\ valSnap = <<>>
    /\ mail = [unread |-> Msgs, processed |-> {}, doc |-> [m \in Msgs |-> "a_match"],
               name |-> OwnNames,
               runs |-> [r \in Runs |-> IdleRun]]
    /\ orch = OrchOff
    /\ poller = NoPoller

\* poll_and_process_emails is called and its await of fetch_emails returns
RunFetch(r) ==
    /\ mail.runs[r].pc = "idle"
    /\ mail.runs[r].started < MaxPolls
    /\ mail' = [mail EXCEPT !.runs[r] = [pc |-> "check", emails |-> FetchEmails(mail),
                                         started |-> @.started + 1]]
    /\ UNCHANGED <<dbVars, histVars, pdf, orch, poller>>

\* the head of process_email: a message in processed_message_ids is
\* skipped; for any other the call awaits get_email_attachments
RunCheck(r) ==
    /\ mail.runs[r].pc = "check"
    /\ LET run == mail.runs[r]
       IN mail' = IF run.emails = <<>> THEN [mail EXCEPT !.runs[r].pc = "idle"]
                  ELSE IF Head(run.emails) \in mail.processed
                  THEN [mail EXCEPT !.runs[r].emails = Tail(@)]
                  ELSE [mail EXCEPT !.runs[r].pc = "insert"]
    /\ UNCHANGED <<dbVars, histVars, pdf, orch, poller>>

\* the attachment is there: insert_invoice and the two audit rows, then the
\* call awaits mark_emails_as_read
RunInsert(r) ==
    /\ mail.runs[r].pc = "insert"
    /\ LET msg == Head(mail.runs[r].emails)
           invoice_id == Len(invoices) + 1
           inserted == [DB EXCEPT !.invoices = Append(@, ReceivedInvoice(msg))]
           logged == LogAudit(LogAudit(inserted, "invoice", invoice_id, "EMAIL_INGESTED"),
                              "invoice", invoice_id, "PDF_STORED")
       IN /\ SetDb(logged)
          /\ pdf' = Append(pdf, SavePdfToPdfsBucket(pdf, invoices, mail, msg))
          /\ valSnap' = [i \in 1..invoice_id |->
                            IF i \in DOMAIN valSnap THEN valSnap[i] ELSE NoSnap]
    /\ mail' = [mail EXCEPT !.runs[r].pc = "mark"]
    /\ UNCHANGED <<lastOp, prevSnap, orch, poller>>

\* mark_emails_as_read has returned: the message id is added to
\* processed_message_ids and the for loop goes to the next message
RunMark(r) ==
    /\ mail.runs[r].pc = "mark"
    /\ LET msg == Head(mail.runs[r].emails)
       IN mail' = [mail EXCEPT !.unread = MarkEmailsAsRead(@, msg),
                              !.processed = @ \cup {msg},
                              !.runs[r] = [@ EXCEPT !.pc = "check", !.emails = Tail(@)]]
    /\ UNCHANGED <<dbVars, histVars, pdf, orch, poller>>

NextOverlap ==
    \/ \E r \in Runs : RunFetch(r)
    \/ \E r \in Runs : RunCheck(r)
    \/ \E r \in Runs : RunInsert(r)
    \/ \E r \in Runs : RunMark(r)

SpecOverlap == InitOverlap /\ [][NextOverlap]_vars

----------------------------------------------------------------------------
(* The whole service: the orchestrator ingests, extracts and validates the
   invoice of one message, while the API receives accept-price and dispute
   requests *)

InitService ==
    /\ invoices = <<>>
    /\ pdf = <<>>
    /\ lines = <<>>
    /\ priceBook = OrchPriceBook
    /\ audit = <<>>
    /\ nextId = FirstFreeId
    /\ lastOp = NoOp
    /\ prevSnap = NoSnap
    /\ valSnap = <<>>
    /\ mail \in {[unread |-> {1}, processed |-> {}, doc |-> [m \in Msgs |-> d],
                  name |-> OwnNames] :
                     d \in {"a_match", "a_pair"}}
    /\ orch = OrchStart
    /\ poller = NoPoller

NextService ==
    \/ OrchPoll(FALSE, {})
    \/ OrchFetch(FALSE)
    \/ \E f \in HeadFaults \cap {NoExtractFault} : OrchParse(f)
    \/ OrchValidate(NoFault)
    \/ OrchEndBatch
    \/ OrchPause
    \/ OrchWake
    \/ \E l \in LineIds \cup {0}, p \in AcceptPrices, d \in AcceptDates : Accept(l, p, d)
    \/ \E i \in DOMAIN invoices, ids \in DisputeIdSets : Dispute(i, ids, NoFault)

SpecService == InitService /\ [][NextService]_vars

----------------------------------------------------------------------------
(* The orchestrator with two messages to ingest, and callers of the
   validate and dispute endpoints that settle an invoice before the
   orchestrator gets to it *)

InitCycle ==
    /\ invoices = <<>>
    /\ pdf = <<>>
    /\ lines = <<>>
    /\ priceBook = OrchPriceBook
    /\ audit = <<>>
    /\ nextId = FirstFreeId
    /\ lastOp = NoOp
    /\ prevSnap = NoSnap
    /\ valSnap = <<>>
    /\ mail \in {[unread |-> Msgs, processed |-> {}, doc |-> d, name |-> OwnNames] :
                     d \in [Msgs -> {"a_match", "a_pair"}]}
    /\ orch = OrchStart
    /\ poller = NoPoller

NextCycle ==
    \/ OrchPoll(FALSE, {})
    \/ OrchFetch(FALSE)
    \/ \E f \in HeadFaults \cap {NoExtractFault} : OrchParse(f)
    \/ OrchValidate(NoFault)
    \/ OrchEndBatch
    \/ OrchPause
    \/ OrchWake
    \/ \E i \in DOMAIN invoices : Validate(i, NoFault)
    \/ \E i \in DOMAIN invoices : Dispute(i, {}, NoFault)

SpecCycle == InitCycle /\ [][NextCycle]_vars


----------------------------------------------------------------------------
(* Properties of the service calls *)

LinesOfInv(i) == LinesOf(lines, i)
ValidateDone == lastOp.op = "validate" /\ lastOp.result = "ok"

\* C1: running validate twice on an invoice, with nothing else touching the
\* invoice, its lines or the active price records in between, leaves the
\* invoice status and every line status as the first run left them.
C1_ValidateIdempotent ==
    (ValidateDone /\ prevSnap # NoSnap) => Snap(invoices, lines, lastOp.inv) = prevSnap

\* a second validate has completed on an invoice one of whose lines a price
\* was learned from
C1_Witness ==
    /\ ValidateDone
    /\ prevSnap # NoSnap
    /\ \E k \in DOMAIN lines : lines[k].status = "created_price_record"

\* C2: after a validate that completed, the invoice is validated exactly when
\* it has at least one line and every line is match; otherwise needs_review.
C2_OverallStatus ==
    ValidateDone =>
        LET ls == LinesOfInv(lastOp.inv)
            all_match == ls # <<>> /\ \A k \in DOMAIN ls : ls[k].status = "match"
        IN /\ invoices[lastOp.inv].status \in {"validated", "needs_review"}
           /\ invoices[lastOp.inv].status = "validated" <=> all_match

\* a validate has completed on an invoice with a match line and a line that
\* is not match
C2_Witness ==
    /\ ValidateDone
    /\ invoices[lastOp.inv].status = "needs_review"
    /\ \E k \in DOMAIN lines : lines[k].status = "match"
    /\ \E k \in DOMAIN lines : lines[k].status # "match"

\* C3: parse_invoice leaves an invoice parsed only if the call inserted at
\* least one line; a call that inserted none leaves the status as it was
\* (received).
C3_ParsedOnlyWithLines ==
    (lastOp.op = "parse" /\ lastOp.inv \in DOMAIN invoices) =>
        /\ invoices[lastOp.inv].status = "parsed" => lastOp.count > 0
        /\ lastOp.count = 0 =>
               /\ invoices[lastOp.inv].status = lastOp.before
               /\ invoices[lastOp.inv].status = "received"

\* a parse_invoice completed although every insert of a document with lines
\* raised: the invoice is still received
C3_Witness ==
    /\ lastOp.op = "parse"
    /\ lastOp.result = "ok"
    /\ lastOp.count = 0
    /\ Extracted(pdf[lastOp.inv]).lines # <<>>
    /\ invoices[lastOp.inv].status = "received"

\* the skus that two or more lines of invoice i carry and that have no active
\* price record for the invoice's supplier
RepeatedUnpricedSkus(i) ==
    LET ls == LinesOfInv(i)
    IN {s \in {ls[k].sku : k \in DOMAIN ls} :
          /\ s # NULL
          /\ invoices[i].supplier_name # NULL
          /\ Cardinality({k \in DOMAIN ls : ls[k].sku = s}) >= 2
          /\ ~\E j \in DOMAIN priceBook :
                 /\ priceBook[j].supplier_name = invoices[i].supplier_name
                 /\ priceBook[j].sku = s
                 /\ priceBook[j].status = "active"}

NeedReviewRows(supplier, s) ==
    {j \in DOMAIN priceBook : /\ priceBook[j].supplier_name = supplier
                              /\ priceBook[j].sku = s
                              /\ priceBook[j].status = "need_review"}

Learnable(l) ==
    /\ l.unit_price # None
    /\ l.unit_price # Some(0)
    /\ (l.currency # NULL \/ invoices[l.invoice_id].currency # NULL)

LineById(id) == lines[CHOOSE k \in DOMAIN lines : lines[k].id = id]
RowById(id) == priceBook[CHOOSE k \in DOMAIN priceBook : priceBook[k].id = id]

\* C9: acceptPrice for a (supplier, sku) with one open record closes that
\* record at validFrom and creates one open-ended record at newPrice; the
\* lookup then returns the new record for a date after validFrom and the old
\* one for a date before it.
C9_AcceptSupersedes ==
    (lastOp.op = "accept_price" /\ Cardinality(lastOp.open_before) = 1) =>
        LET l == LineById(lastOp.line)
            supplier == invoices[l.invoice_id].supplier_name
            old == CHOOSE id \in lastOp.open_before : TRUE
            open_now == OpenRowsFor(priceBook, invoices, lines, lastOp.line)
            after == FindBuyingPriceBySku(priceBook, supplier, l.sku,
                                          Some(lastOp.valid_from + 1))
            before == FindBuyingPriceBySku(priceBook, supplier, l.sku,
                                           Some(lastOp.valid_from - 1))
        IN /\ lastOp.result = "ok"
           /\ RowById(old).valid_to = IsoFormat(lastOp.valid_from)
           /\ Cardinality(open_now) = 1
           /\ \A id \in open_now : id # old /\ RowById(id).unit_price = lastOp.price
           /\ after # None /\ after[1].id \in open_now
           /\ before # None /\ before[1].id = old

\* the two rows are rows for one key: the supplier and the sku, or the
\* supplier and the lower-cased product name when neither has a sku
SameKey(r1, r2) ==
    /\ r1.supplier_name = r2.supplier_name
    /\ IF r1.sku # NULL \/ r2.sku # NULL THEN r1.sku = r2.sku
       ELSE Lower(r1.product_name) = Lower(r2.product_name)

OpenActive(r) == r.status = "active" /\ r.valid_to = NULL

\* C10: for each key at most one active price record is open-ended, in every
\* state that validate and acceptPrice calls reach.
C10_AtMostOneOpenActive ==
    \A j, k \in DOMAIN priceBook :
        (j # k /\ OpenActive(priceBook[j]) /\ OpenActive(priceBook[k]))
            => ~SameKey(priceBook[j], priceBook[k])

\* acceptPrice has been called on a line of an invoice whose validate
\* learned a price, next to an open active record
C10_Witness ==
    /\ lastOp.op = "accept_price"
    /\ lastOp.line # 0
    /\ \E k \in DOMAIN priceBook : priceBook[k].source = "learned_from_invoice"
                                    /\ priceBook[k].id >= FirstFreeId
    /\ \E k \in DOMAIN priceBook : OpenActive(priceBook[k])

----------------------------------------------------------------------------
(* Properties of the orchestrator *)

Range(s) == {s[k] : k \in DOMAIN s}

\* C4: in both drains, an invoice whose extract or validate raised keeps the
\* status of the drain (received, resp. parsed), and once the batch is gone
\* through the service has been called on every invoice of the batch.
C4_FailureIsolation ==
    orch.pc = "batch" =>
        /\ \A i \in orch.failed : invoices[i].status = orch.drain
        /\ orch.queue = <<>> => orch.tried = Range(orch.batch)

\* a batch of two is gone through: the call raised for its first invoice
\* and returned for its second
C4_Witness ==
    /\ orch.pc = "batch"
    /\ orch.queue = <<>>
    /\ Len(orch.batch) = 2
    /\ orch.failed = {orch.batch[1]}
    /\ orch.processed_count = 1

\* C5: the orchestrator task has ended only if it was cancelled at shutdown:
\* no exception of the mail poll, of a fetch, of an extract, of a validate or
\* of the cycle ends it; and it is in the back-off sleep only after a
\* cycle-level exception.
C5_OnlyCancelStops ==
    /\ orch.pc = "done" => orch.why = "cancelled"
    /\ orch.pc = "backoff" => orch.exc = "cycle"

\* after a cycle-level exception and its back-off the task is fetching again
C5_Witness ==
    /\ orch.exc = "cycle"
    /\ orch.pc = "fetch"
    /\ orch.drain = "received"

\* C6: a drain is left (drain-received for drain-parsed, drain-parsed for the
\* sleep) only after a fetch of the drain's status has returned no row.
C6_AdvanceOnlyAfterEmptyFetch ==
    orch.adv # <<>> => orch.adv[2] = "empty"

\* C7: within one drain pass no invoice changes status twice, and a change
\* is received -> parsed in drain-received, parsed -> validated or
\* needs_review in drain-parsed.
C7_OneTransitionPerPass ==
    /\ \A j, k \in DOMAIN orch.moves : j # k => orch.moves[j][1] # orch.moves[k][1]
    /\ \A k \in DOMAIN orch.moves :
           \/ /\ orch.drain = "received"
              /\ orch.moves[k][2] = "received"
              /\ orch.moves[k][3] = "parsed"
           \/ /\ orch.drain = "parsed"
              /\ orch.moves[k][2] = "parsed"
              /\ orch.moves[k][3] \in {"validated", "needs_review"}

\* a drain-parsed pass has moved two invoices and is about to fetch again
C7_Witness ==
    /\ orch.drain = "parsed"
    /\ orch.pc = "fetch"
    /\ Len(orch.moves) = 2

----------------------------------------------------------------------------
(* Properties of the mismatch resolver *)

\* the value cleaning stores for an extracted number
Cleaned(x) == IF x = None THEN None ELSE IF x[1] < 0 THEN Some(0 - x[1]) ELSE x

\* C21: every stored line carries, for quantity, unit_price, line_total and
\* net_amount, the absolute value of what the extraction returned for it: a
\* negative value is replaced by its absolute value before the line is
\* persisted, a non-negative one is stored unchanged.
C21_CleanedBeforePersisted ==
    \A k \in DOMAIN lines :
        LET raw == Extracted(pdf[lines[k].invoice_id]).lines
        IN \E r \in DOMAIN raw :
              /\ raw[r].line_no = lines[k].line_no
              /\ lines[k].quantity = Cleaned(raw[r].quantity)
              /\ lines[k].unit_price = Cleaned(raw[r].unit_price)
              /\ lines[k].line_total = Cleaned(raw[r].line_total)
              /\ lines[k].net_amount = Cleaned(raw[r].net_amount)

\* the line extracted with quantity -5, unit_price -0.001, line_total -0.005
\* and net_amount -0.004 is stored with 5, 0.001, 0.005 and 0.004, next to a
\* line whose non-negative values are stored as extracted
C21_Witness ==
    /\ lastOp.op = "parse" /\ lastOp.result = "ok"
    /\ \E k, m \in DOMAIN lines :
          /\ lines[k].quantity = Some(5) /\ lines[k].unit_price = Some(100)
          /\ lines[k].line_total = Some(500) /\ lines[k].net_amount = Some(400)
          /\ lines[m].quantity = Some(1) /\ lines[m].net_amount = Some(0)
          /\ lines[m].line_total = Some(100)

\* C22: no step of ingestion, extract, validate, acceptPrice or
\* disputeInvoice updates or deletes an audit log entry: after every step
\* the audit log begins with the entries it held before the step, unchanged.
C22_AuditAppendOnly ==
    [][/\ Len(audit') >= Len(audit)
       /\ SubSeq(audit', 1, Len(audit)) = audit]_vars

\* the audit log holds the entries of an ingestion, an extract, a validate
\* and a dispute, in the order they were made
C22_Witness ==
    /\ Len(audit) = 5
    /\ audit[1].action = "EMAIL_INGESTED" /\ audit[2].action = "PDF_STORED"
    /\ audit[3].action = "INVOICE_PARSED" /\ audit[4].action = "INVOICE_VALIDATED"
    /\ audit[5].action = "invoice_dispute"
    /\ lastOp.op = "dispute"

\* C11: acceptPrice on a line whose status was mismatch, with newPrice the
\* line's unit price and validFrom not later than the invoice date, succeeds,
\* and afterwards validate has been re-run: the line is match, and the
\* invoice is validated when all its other lines match.
C11_AcceptResolvesMismatch ==
    (/\ lastOp.op = "accept_price"
     /\ lastOp.before = "mismatch"
     /\ LineById(lastOp.line).unit_price = Some(lastOp.price)
     /\ FromIso(invoices[LineById(lastOp.line).invoice_id].invoice_date) # None
     /\ lastOp.valid_from
            <= FromIso(invoices[LineById(lastOp.line).invoice_id].invoice_date)[1])
    => LET i == LineById(lastOp.line).invoice_id
           others == {k \in DOMAIN lines : lines[k].invoice_id = i
                                            /\ lines[k].id # lastOp.line}
       IN /\ lastOp.result = "ok"
          /\ LineById(lastOp.line).status = "match"
          /\ (\A k \in others : lines[k].status = "match")
                 => invoices[i].status = "validated"

\* the supplier of the line's invoice: absent when the invoice names none or
\* no price record carries the name
SupplierMissing(line_id) ==
    LET s == invoices[LineById(line_id).invoice_id].supplier_name
    IN s = NULL \/ ~ \E k \in DOMAIN priceBook : priceBook[k].supplier_name = s

\* no price record maps the line's sku for the supplier of its invoice
MappingMissing(line_id) ==
    LET l == LineById(line_id)
    IN ~ \E k \in DOMAIN priceBook :
            /\ priceBook[k].supplier_name = invoices[l.invoice_id].supplier_name
            /\ priceBook[k].sku = l.sku

\* C14: acceptPrice fails with NotFound (404) when the line, the supplier, or
\* the supplier + sku mapping does not exist; then no PriceBook record is
\* closed or inserted, no status changes, and validate is not re-run.
C14_AcceptNotFound ==
    [][(/\ lastOp'.op = "accept_price"
        /\ \/ lastOp'.line \notin LineIds
           \/ SupplierMissing(lastOp'.line)
           \/ MappingMissing(lastOp'.line))
       => /\ AcceptPriceEndpoint(lastOp'.result) = 404
          /\ UNCHANGED <<invoices, lines, priceBook, valSnap>>]_vars

\* the invoice of the abandoned step has the status it had before the step,
\* and running the step again to the end leaves the statuses the
\* undisturbed step would have left
RetriedAsUndisturbed ==
    LET i == lastOp.inv
    IN /\ invoices[i].status = lastOp.before
       /\ lastOp.op = "validate"
            => LET r == ValidateInvoice(DB, NoFault, i)
               IN r.result = "ok" /\ Snap(r.db.invoices, r.db.lines, i) = prevSnap
       /\ lastOp.op = "parse"
            => LET r == ParseInvoice(DB, i, Extracted(pdf[i]), NoExtractFault)
               IN /\ r.result = "ok"
                  /\ SnapByLineNo(r.db.invoices, r.db.lines, i) = prevSnap

\* C15 as stated: whenever extract or validate is abandoned between two of
\* its storage mutations, the invoice still has the status it had before the
\* step, and re-running the step to completion yields the statuses of an
\* uninterrupted run.
C15_AbandonedAsStated ==
    lastOp.result = "abandoned" => RetriedAsUndisturbed

\* C15: when extract or validate is abandoned between two of its storage
\* mutations and before its write of the invoice status, the invoice still
\* has the status it had before the step, and re-running the step to
\* completion yields the same invoice and line statuses as an uninterrupted
\* run.
C15_AbandonedStepRetried ==
    (lastOp.result = "abandoned" /\ ~lastOp.status_written) => RetriedAsUndisturbed

\* an extract abandoned after it had inserted the first of two lines
C15_Witness ==
    /\ lastOp.result = "abandoned" /\ ~lastOp.status_written
    /\ lastOp.op = "parse"
    /\ Cardinality({k \in DOMAIN lines : lines[k].invoice_id = lastOp.inv}) = 1
    /\ Len(prevSnap.lines) = 2
    /\ invoices[lastOp.inv].status = "received"

\* a validate abandoned after it had written the status of the first of two
\* lines, the second one a mismatch
ValidateAbandonedMidway ==
    /\ lastOp.result = "abandoned" /\ ~lastOp.status_written
    /\ lastOp.op = "validate"
    /\ prevSnap.status = "needs_review"
    /\ \E k, m \in DOMAIN lines : lines[k].status = "match" /\ lines[m].status = NULL

\* C16: with ENABLE_BACKGROUND_POLLING on, the orchestrator never runs
\* ingestion; with it off, there is no polling task and the orchestrator
\* runs ingestion once in each cycle, before the drains.
C16_FlagDecidesWhoIngests ==
    /\ poller.enabled => orch.polls = 0
    /\ ~poller.enabled =>
          /\ poller.pc = "off" /\ poller.polls = 0
          /\ orch.pc = "poll" => orch.polls = 0
          /\ orch.pc \in {"fetch", "batch", "pause"} => orch.polls = 1

\* the setting on: the polling task has ingested a message and the
\* orchestrator has taken the invoice through a cycle without polling
C16_Witness ==
    /\ poller.enabled /\ poller.polls > 0
    /\ orch.pc = "sleep" /\ orch.polls = 0
    /\ \E i \in DOMAIN invoices : invoices[i].status = "validated"

\* the setting off: the orchestrator in its second cycle, after its poll
OrchestratorIngests ==
    /\ ~poller.enabled /\ poller.pc = "off"
    /\ orch.pc = "fetch" /\ orch.polls = 1 /\ orch.fetches >= 2
    /\ Len(invoices) > 0

\* C17: after ingestion of a message has succeeded the message is marked
\* read, so that a later fetch of the unread messages does not return it.
C17_IngestedIsRead ==
    \A m \in mail.processed : m \notin Range(FetchEmails(mail))

\* C18: with polls that do not overlap, and across restarts of the
\* process, no two invoices carry the same source_message_id.
C18_OneInvoicePerMessage ==
    \A i, j \in DOMAIN invoices :
        i # j => invoices[i].source_message_id # invoices[j].source_message_id

\* the active record validate compares line l with
ReferenceOf(l) ==
    LET inv == invoices[l.invoice_id]
    IN IF l.sku # NULL
       THEN FindBuyingPriceBySku(priceBook, inv.supplier_name, l.sku,
                                 FromIso(inv.invoice_date))
       ELSE FindBuyingPriceByProductName(priceBook, inv.supplier_name,
                                         l.product_name, FromIso(inv.invoice_date))

\* C19: a line with a unit price and a reference price is match exactly when
\* |actual - expected| < 0.0001: a difference of exactly 0.0001 is a
\* mismatch and one of 0.00009 a match, whatever the magnitude of the prices.
C19_EpsilonBoundary ==
    ValidateDone =>
        \A k \in DOMAIN lines :
            LET l == lines[k]
            IN (/\ l.invoice_id = lastOp.inv
                /\ l.unit_price # None /\ l.unit_price # Some(0)
                /\ ReferenceOf(l) # None)
               => /\ l.status \in {"match", "mismatch"}
                  /\ l.status = "match"
                        <=> Abs(l.unit_price[1] - ReferenceOf(l)[1].unit_price) < Epsilon

\* price record r is a need_review record for the match key of line l
NeedReviewFor(r, l) ==
    /\ r.status = "need_review"
    /\ r.supplier_name = invoices[l.invoice_id].supplier_name
    /\ IF l.sku # NULL THEN r.sku = l.sku ELSE r.product_name = l.product_name

\* line l of the validated invoice has a supplier and a match key, and no
\* active price record applies to it
Unpriced(l) ==
    /\ l.invoice_id = lastOp.inv
    /\ invoices[l.invoice_id].supplier_name # NULL
    /\ (l.sku # NULL \/ l.product_name # NULL)
    /\ ReferenceOf(l) = None

\* a need_review record for the (supplier, sku) of line l existed when the
\* line was processed: before the call, or learned from an earlier line
HadNeedReview(l) ==
    /\ l.sku # NULL
    /\ \/ \E j \in 1..lastOp.rows_before : NeedReviewFor(priceBook[j], l)
       \/ \E m \in DOMAIN lines :
              /\ lines[m].invoice_id = l.invoice_id
              /\ lines[m].line_no < l.line_no
              /\ lines[m].sku = l.sku
              /\ Learnable(lines[m])

C12_DisputeFrame ==
    [][(lastOp'.op = "dispute" /\ lastOp'.result = "ok")
       => /\ lastOp'.inv \in DOMAIN invoices
                => invoices'[lastOp'.inv].status = "disputed"
          /\ DOMAIN lines' = DOMAIN lines
          /\ \A k \in DOMAIN lines :
                lines'[k] = IF lines[k].id \in lastOp'.ids
                            THEN [lines[k] EXCEPT !.status = "no_match"]
                            ELSE lines[k]]_vars

\* a dispute that listed one line of an invoice with two lines, the other
\* line still match
C12_Witness ==
    /\ lastOp.op = "dispute" /\ lastOp.result = "ok"
    /\ \E k, m \in DOMAIN lines :
          /\ lines[k].invoice_id = lastOp.inv /\ lines[m].invoice_id = lastOp.inv
          /\ lines[k].id \in lastOp.ids /\ lines[k].status = "no_match"
          /\ lines[m].id \notin lastOp.ids /\ lines[m].status = "match"
    /\ invoices[lastOp.inv].status = "disputed"

\* C13: a successful disputeInvoice repeated with the same arguments leaves
\* the invoice status and every line status as the first call left them;
\* nothing but the audit log changes, which gains the entry of the second
\* call.
C13_DisputeIdempotent ==
    [][(/\ lastOp.op = "dispute" /\ lastOp.result = "ok"
        /\ lastOp'.op = "dispute" /\ lastOp'.result = "ok"
        /\ lastOp'.inv = lastOp.inv /\ lastOp'.ids = lastOp.ids)
       => /\ invoices' = invoices
          /\ lines' = lines
          /\ priceBook' = priceBook
          /\ audit' = Append(audit, AuditEntry("invoices", lastOp.inv,
                                               "invoice_dispute"))]_vars

\* a dispute of listed lines made twice in a row, the second one logged
C13_Witness ==
    /\ lastOp.op = "dispute" /\ lastOp.result = "ok" /\ lastOp.count = 2
    /\ lastOp.inv \in DOMAIN invoices
    /\ \E k \in DOMAIN lines : lines[k].id \in lastOp.ids
    /\ Len(audit) >= 2
    /\ audit[Len(audit)].action = "invoice_dispute"
    /\ audit[Len(audit) - 1].action = "invoice_dispute"

\* the lines of a document that parse_invoice stores when the inserts of
\* the positions in failing fail: line_no and the cleaned fields
StoredFields(l) ==
    [line_no |-> l.line_no, sku |-> l.sku, product_name |-> l.product_name,
     quantity |-> l.quantity, unit_price |-> l.unit_price,
     line_total |-> l.line_total, net_amount |-> l.net_amount]
ExpectedLines(doc, failing) ==
    {StoredFields(CleanInvoiceLines(doc.lines)[k]) : k \in DOMAIN doc.lines \ failing}

\* an extract whose calls before and after the inserts all went through,
\* the header update left aside
OnlyHeaderOrInsertsFailed ==
    /\ lastOp.op = "parse"
    /\ ~lastOp.fault.pre /\ ~lastOp.fault.delete /\ ~lastOp.fault.status

\* C23: when the update of the invoice header fails during extract, the
\* old lines of the invoice are still deleted, the cleaned lines of the
\* document are still inserted, and the invoice is parsed if at least one
\* line was inserted
C23_HeaderFailureTolerated ==
    (OnlyHeaderOrInsertsFailed /\ lastOp.fault.header) =>
        LET i == lastOp.inv
            mine == {k \in DOMAIN lines : lines[k].invoice_id = i}
        IN /\ lastOp.result = "ok"
           /\ \A k \in mine : lines[k].id >= lastOp.first_id
           /\ {StoredFields(lines[k]) : k \in mine}
                = ExpectedLines(Extracted(pdf[i]), lastOp.fault.inserts)
           /\ (mine # {} => invoices[i].status = "parsed")

C23_Witness ==
    /\ OnlyHeaderOrInsertsFailed /\ lastOp.fault.header
    /\ lastOp.first_id > FirstFreeId
    /\ pdf[lastOp.inv] = "dotted"
    /\ invoices[lastOp.inv].status = "parsed"
    /\ invoices[lastOp.inv].supplier_name = NULL
    /\ Cardinality({k \in DOMAIN lines : lines[k].invoice_id = lastOp.inv}) = 2

\* an extract that reached its inserts
ReachedInserts ==
    lastOp.op = "parse" /\ ~lastOp.fault.pre /\ ~lastOp.fault.delete

\* C24: an insert that fails does not keep the lines after it from being
\* inserted, and the count that decides the transition to parsed is the
\* number of lines the call inserted: with a count above zero the invoice
\* becomes parsed, with zero it keeps its status
C24_FailedInsertSkipped ==
    ReachedInserts =>
        LET i == lastOp.inv
            doc == Extracted(pdf[i])
            added == {k \in DOMAIN lines : /\ lines[k].invoice_id = i
                                           /\ lines[k].id >= lastOp.first_id}
        IN /\ \A p \in DOMAIN doc.lines \ lastOp.fault.inserts :
                  \E k \in added : lines[k].line_no = doc.lines[p].line_no
           /\ lastOp.count = Cardinality(added)
           /\ lastOp.count = Len(doc.lines) - Cardinality(lastOp.fault.inserts)
           /\ (lastOp.count > 0 /\ ~lastOp.fault.status) =>
                  (lastOp.result = "ok" /\ invoices[i].status = "parsed")
           /\ lastOp.count = 0 =>
                  (lastOp.result = "ok" /\ invoices[i].status = lastOp.before)

\* the first insert failed, the second went through and decided
C24_Witness ==
    /\ ReachedInserts
    /\ lastOp.fault.inserts = {1}
    /\ lastOp.count = 1
    /\ invoices[lastOp.inv].status = "parsed"
    /\ \E k \in DOMAIN lines : /\ lines[k].invoice_id = lastOp.inv
                                /\ lines[k].line_no = 2
                                /\ lines[k].id = lastOp.first_id + 1

\* C25: after extract has replaced the lines of an invoice, the stored
\* lines of the invoice are the lines that run inserted: no line the
\* invoice had before remains, and every line has status null
C25_OnlyNewLinesRemain ==
    ReachedInserts =>
        LET mine == {k \in DOMAIN lines : lines[k].invoice_id = lastOp.inv}
        IN /\ \A k \in mine : /\ lines[k].id \notin {o[1] : o \in lastOp.old}
                              /\ lines[k].id >= lastOp.first_id
                              /\ lines[k].status = NULL
           /\ Cardinality(mine) = lastOp.count

\* the invoice had two lines, one of them resolved, and has two new ones
C25_Witness ==
    /\ ReachedInserts
    /\ Cardinality(lastOp.old) = 2
    /\ \E o \in lastOp.old : o[2] = "match"
    /\ lastOp.count = 2
    /\ Cardinality({k \in DOMAIN lines : lines[k].invoice_id = lastOp.inv}) = 2

\* the outcome of validate_invoice on the stored data with the status of
\* invoice i taken to be parsed
ValidatedAsParsed(i) ==
    ValidateInvoice([DB EXCEPT !.invoices[i].status = "parsed"], NoFault, i)

\* C26: validate on an invoice whose status is received, validated,
\* needs_review or disputed does not fail: it leaves the lines, the price
\* records and the invoice as it would have left them had the status been
\* parsed, the status of the invoice being validated or needs_review
C26_ValidateWhateverStatus ==
    [][\A i \in DOMAIN invoices :
          (/\ lastOp'.op = "validate" /\ lastOp'.inv = i
           /\ invoices[i].status \in {"received", "validated", "needs_review",
                                       "disputed"}) =>
              /\ lastOp'.result = "ok"
              /\ lines' = ValidatedAsParsed(i).db.lines
              /\ priceBook' = ValidatedAsParsed(i).db.priceBook
              /\ invoices' = ValidatedAsParsed(i).db.invoices
              /\ invoices'[i].status \in {"validated", "needs_review"}]_vars

\* a disputed invoice was validated: its lines are resolved again
C26_Witness ==
    /\ lastOp.op = "validate" /\ lastOp.result = "ok"
    /\ lastOp.before = "disputed"
    /\ invoices[lastOp.inv].status = "needs_review"
    /\ \E k, m \in DOMAIN lines : /\ lines[k].invoice_id = lastOp.inv
                                   /\ lines[m].invoice_id = lastOp.inv
                                   /\ lines[k].status = "match"
                                   /\ lines[m].status = "mismatch"

\* the active records that apply to line l by its sku, and by its product
\* name compared without regard to case
SkuCandidates(l) ==
    LET inv == invoices[l.invoice_id]
    IN {k \in DOMAIN priceBook :
           /\ priceBook[k].status = "active"
           /\ priceBook[k].supplier_name = inv.supplier_name
           /\ priceBook[k].sku = l.sku
           /\ (FromIso(inv.invoice_date) = None
                  \/ DateValid(priceBook[k], FromIso(inv.invoice_date)[1]))}
NameCandidates(l) ==
    LET inv == invoices[l.invoice_id]
    IN {k \in DOMAIN priceBook :
           /\ priceBook[k].status = "active"
           /\ priceBook[k].supplier_name = inv.supplier_name
           /\ priceBook[k].product_name # NULL
           /\ Lower(priceBook[k].product_name) = Lower(l.product_name)
           /\ (FromIso(inv.invoice_date) = None
                  \/ DateValid(priceBook[k], FromIso(inv.invoice_date)[1]))}

\* the status of a line is one a reference price gives
Compared(l) == l.status \in {"match", "mismatch"}

\* C27: validate matches a line that has a sku by the sku alone, also when
\* no record has the sku; it matches a line without sku by its product
\* name, case-insensitively; a line with neither is unknown, and no price
\* record is created for it
C27_SkuBeforeName ==
    ValidateDone =>
        /\ \A k \in DOMAIN lines :
              LET l == lines[k]
              IN (l.invoice_id = lastOp.inv /\ l.unit_price # None /\ l.unit_price[1] # 0) =>
                    /\ l.sku # NULL => (Compared(l) <=> SkuCandidates(l) # {})
                    /\ (l.sku = NULL /\ l.product_name # NULL) =>
                           (Compared(l) <=> NameCandidates(l) # {})
                    /\ (l.sku = NULL /\ l.product_name = NULL) => l.status = "unknown"
        /\ \A j \in DOMAIN priceBook :
              j > lastOp.rows_before =>
                  (priceBook[j].sku # NULL \/ priceBook[j].product_name # NULL)
        /\ Len(priceBook) - lastOp.rows_before
              <= Cardinality({k \in DOMAIN lines :
                     /\ lines[k].invoice_id = lastOp.inv
                     /\ (lines[k].sku # NULL \/ lines[k].product_name # NULL)})

\* no record has the sku of the line, a record has its product name, and
\* the line was not compared with it: a price was learned instead
C27_Witness ==
    /\ ValidateDone
    /\ \E k \in DOMAIN lines :
          /\ lines[k].invoice_id = lastOp.inv
          /\ lines[k].sku # NULL
          /\ SkuCandidates(lines[k]) = {}
          /\ NameCandidates(lines[k]) # {}
          /\ lines[k].status = "created_price_record"

\* day d lies in the half-open window [valid_from, valid_to) of record r
InHalfOpenWindow(r, d) ==
    /\ (FromIso(r.valid_from) = None \/ FromIso(r.valid_from)[1] <= d)
    /\ (FromIso(r.valid_to) = None \/ d < FromIso(r.valid_to)[1])

\* the active records for the key of line l that the half-open window
\* admits; all of them when the invoice date is missing or unparsable
HalfOpenCandidates(l) ==
    LET inv == invoices[l.invoice_id]
    IN {k \in DOMAIN priceBook :
           /\ priceBook[k].status = "active"
           /\ priceBook[k].supplier_name = inv.supplier_name
           /\ IF l.sku # NULL THEN priceBook[k].sku = l.sku
              ELSE /\ priceBook[k].product_name # NULL
                   /\ Lower(priceBook[k].product_name) = Lower(l.product_name)
           /\ (FromIso(inv.invoice_date) = None
                  \/ InHalfOpenWindow(priceBook[k], FromIso(inv.invoice_date)[1]))}

FirstOf(S) == CHOOSE k \in S : \A j \in S : k <= j

\* C28: with a parsed invoice date d the candidates of a line are the
\* active records for its key with valid_from <= d < valid_to (no upper
\* bound when valid_to is null), so a record whose valid_to is d is none;
\* without a parsed date they are all active records for the key. The
\* line is compared exactly when there is a candidate, and with the first.
C28_HalfOpenWindow ==
    ValidateDone =>
        \A k \in DOMAIN lines :
            LET l == lines[k]
            IN (/\ l.invoice_id = lastOp.inv
                /\ l.unit_price # None /\ l.unit_price[1] # 0
                /\ (l.sku # NULL \/ l.product_name # NULL)) =>
                   /\ Compared(l) <=> HalfOpenCandidates(l) # {}
                   /\ Compared(l) =>
                         (l.status = "match" <=>
                            PricesMatch(l.unit_price[1],
                                priceBook[FirstOf(HalfOpenCandidates(l))].unit_price))

\* C29: a dispute of an invoice id that no invoice has ends in NotFound (a
\* ValueError, which the endpoint answers with 404) and writes nothing: no
\* line changes its status and the audit log gets no entry
C29_DisputeNotFound ==
    [][(lastOp'.op = "dispute" /\ lastOp'.inv \notin DOMAIN invoices) =>
          /\ lastOp'.result = "ValueError"
          /\ lines' = lines
          /\ audit' = audit]_vars

\* C30: every cycle of the orchestrator reaches its sleep: drain-received
\* ends after finitely many batches, also when the extraction of a received
\* invoice keeps ending with no line inserted or keeps raising, and
\* drain-parsed is reached in every cycle
C30_CycleReachesSleep ==
    (orch.pc = "fetch" /\ orch.drain = "received") ~> (orch.pc = "sleep")

\* C31: a received invoice whose extraction succeeds is parsed by the
\* orchestrator in the end, also when as many other received invoices as a
\* batch holds, or more, fail their extraction on every attempt
C31_ReadableEventuallyParsed ==
    <>(\A i \in DOMAIN invoices :
          pdf[i] # Unreadable => invoices[i].status # "received")

\* C32: when two runs of the mail ingestion overlap in one process, each
\* message is ingested at most once: the set of processed message ids
\* keeps a second invoice for the same message id from being created
C32_IngestedAtMostOnce ==
    \A m \in Msgs :
        Cardinality({i \in DOMAIN invoices : invoices[i].source_message_id = m}) <= 1

\* C33: every invoice created by ingestion refers to a stored PDF that
\* holds the attachment of its own source message, also when two messages
\* carry attachments of the same file name
C33_OwnPdf ==
    \A i \in DOMAIN invoices : pdf[i] = mail.doc[invoices[i].source_message_id]

\* C34: whenever validate leaves an invoice in needs_review, validated_at
\* of the invoice is null afterwards, also when an earlier validate had
\* set the invoice to validated and recorded a validated_at
C34_NeedsReviewHasNoValidatedAt ==
    (ValidateDone /\ invoices[lastOp.inv].status = "needs_review") =>
        ~invoices[lastOp.inv].validated_at

\* C35: once disputeInvoice has set an invoice to disputed, no later
\* operation (a drain of the orchestrator, a validate triggered again,
\* acceptPrice on one of its lines) changes its status away from disputed
C35_DisputedStays ==
    [][\A i \in DOMAIN invoices :
          invoices[i].status = "disputed" => invoices'[i].status = "disputed"]_vars

\* the invoices of the batch the orchestrator is going through
InBatch == IF orch.pc = "batch" THEN Range(orch.batch) ELSE {}

\* the rows of invoice_lines of invoice i
RowsOf(ls, i) == {ls[k] : k \in {j \in DOMAIN ls : ls[j].invoice_id = i}}

\* C36: a cycle of the orchestrator changes neither the status nor the
\* lines of an invoice that is validated, needs_review or disputed when
\* its batch is fetched: a batch of drain-received holds only invoices
\* that are received at the fetch, a batch of drain-parsed only invoices
\* that are parsed, and a step of the orchestrator changes only invoices
\* of its batch
C36_OnlyFetchedStatusTouched ==
    [][orch' # orch =>
          /\ (orch.pc = "fetch" /\ orch'.pc = "batch") =>
                 /\ orch'.drain \in {"received", "parsed"}
                 /\ \A i \in Range(orch'.batch) : invoices[i].status = orch'.drain
          /\ \A i \in DOMAIN invoices :
                 i \notin InBatch =>
                     /\ invoices'[i] = invoices[i]
                     /\ RowsOf(lines', i) = RowsOf(lines, i)]_vars

\* the orchestrator has extracted the one received invoice of its batch
\* while the other invoice, settled before the fetch, is as it was
C36_Witness ==
    /\ orch.pc = "batch" /\ orch.drain = "received"
    /\ orch.batch = <<2>> /\ orch.tried = {2}
    /\ invoices[2].status = "parsed"
    /\ invoices[1].status \in {"needs_review", "disputed"}
    /\ RowsOf(lines, 1) = {}

NeedReviewRecords(pb) == {pb[k] : k \in {j \in DOMAIN pb : pb[j].status = "need_review"}}

\* C38: validate run again on an unchanged invoice adds no PriceBook record:
\* the need_review records after the second run are those after the first
\* run, for lines keyed by sku and for lines keyed only by product_name.
C38_RerunAddsNoRecord ==
    [][(/\ lastOp.op = "validate" /\ lastOp.result = "ok"
        /\ lastOp'.op = "validate" /\ lastOp'.result = "ok"
        /\ lastOp'.inv = lastOp.inv)
       => NeedReviewRecords(priceBook') = NeedReviewRecords(priceBook)]_vars

\* C39: a line whose unit_price is the number 0 has a unit price: with an
\* applicable reference price of 0 it is marked match, with another
\* reference price mismatch; a line that has a supplier, a match key and a
\* currency is marked unknown only when its unit_price is null.
C39_ZeroIsAPrice ==
    ValidateDone =>
        \A k \in DOMAIN lines :
            LET l == lines[k]
            IN l.invoice_id = lastOp.inv =>
                  /\ (l.unit_price = Some(0) /\ ReferenceOf(l) # None) =>
                         l.status = IF ReferenceOf(l)[1].unit_price = 0
                                    THEN "match" ELSE "mismatch"
                  /\ (/\ l.status = "unknown"
                      /\ invoices[l.invoice_id].supplier_name # NULL
                      /\ (l.sku # NULL \/ l.product_name # NULL)
                      /\ (l.currency # NULL \/ invoices[l.invoice_id].currency # NULL)) =>
                         l.unit_price = None

====
